---- MODULE Spec2Model ----
(***************************************************************************)
(* Per-market scalping control loop of jesse-quant-notes (PolyScalping).   *)
(*                                                                         *)
(* One market is modelled.  Prices are integers in thousandths of a        *)
(* dollar (0.34 = 340), profit targets are integers in percent (0.05 = 5), *)
(* sizes are integers in shares and time is "seconds remaining"            *)
(* (ctx.end_time - time.time()).  A comparison  x <= 1 - (1+t)*avg  with   *)
(* avg = cost/size is evaluated exactly by cross-multiplication.           *)
(* A market id absent from a dict behaves like the empty list / zero the   *)
(* code installs on first use, so absence is modelled as <<>> / 0.         *)
(* LevelPosition.entry_time and level_price are stored but never read by   *)
(* the decisions and are left out.  A handler reads the clock once: every  *)
(* time.time() of one evaluation returns the same instant.  The bots run   *)
(* with TRADING_ENABLED set, the mode in which orders reach the venue.     *)
(***************************************************************************)
EXTENDS Integers, Sequences, FiniteSets, TLC

VARIABLES
    bot,                \* which program is running (each has its own main)
    ask_yes, ask_no,    \* best asks of the YES / NO token (order-book mirror); 0 = none
    remaining,          \* ctx.end_time - time.time(), seconds
    venue_resting,      \* ids of the bot's post-only orders resting at the venue
    last,               \* the last step: the intent returned and what executing it did
    v2_positions,       \* MultiLevelScalpingStrategyV2.positions[m]
    completed_cycles,   \* MultiLevelScalpingStrategyV2.completed_cycles[m]
    active_tp_orders,   \* BTCScalpingBotV2.active_tp_orders[m]
    v1_positions,       \* MultiLevelScalpingStrategy.positions[m]
    last_entry_time,    \* the (side, level) keys of last_entry_time[m] with a time set
    trade_count,        \* MultiLevelScalpingStrategy.trade_count[m]
    high_scalp_count,   \* MultiLevelScalpingStrategy.high_scalp_count[m]
    active_exit_orders, \* MultiLevelScalpingStrategy.active_exit_orders[m]
    exit_signal_recent, \* now - last_exit_signal_time[m] < 1.0
    ctx_position_yes,   \* MarketContext.position_yes
    ctx_position_no,    \* MarketContext.position_no
    rt,                 \* the callbacks delivered to a strategy driven directly
    hist,               \* what has happened so far in the market (observation only)
    active_markets,     \* the ids in the running bot's active_markets
    scalper,            \* ScalpingBot: processing_markets, is_running, callbacks in flight
    order_book,         \* tracker.OrderBook: the bid map and the ask map
    streamer            \* MarketDataStreamer: connection, tasks, queue, frames sent

envVars == <<ask_yes, ask_no, remaining>>
v2Vars == <<v2_positions, completed_cycles, active_tp_orders>>
v1Vars == <<v1_positions, last_entry_time, trade_count, high_scalp_count,
            active_exit_orders, exit_signal_recent>>
ctxVars == <<ctx_position_yes, ctx_position_no>>

sysVars == <<active_markets, scalper, order_book, streamer>>
botVars == <<envVars, venue_resting, last, v2Vars, v1Vars, ctxVars, rt, hist>>

vars == <<bot, envVars, venue_resting, last, v2Vars, v1Vars, ctxVars, rt, hist, sysVars>>

---------------------------------------------------------------------------
(* Bounds of the model *)

MaxPositions == 3
MaxCycleCount == 4

(* Representative books <<YES ask, NO ask>>: a side just below the 0.34    *)
(* level with the unwind price above / below the take-profit target, a     *)
(* side far below every level, a side at high-scalp prices with the        *)
(* unwind price above / below the high-scalp target, and a crossed book.   *)
PricePairs == {<<335, 670>>, <<335, 640>>, <<670, 335>>, <<640, 335>>,
               <<135, 880>>, <<880, 135>>, <<880, 90>>, <<235, 880>>}

(* The books among them that the web bot is run on. *)
WebPricePairs == {<<335, 670>>, <<335, 640>>, <<880, 135>>, <<880, 90>>}

(* Books for following a take-profit order: YES just below the 0.34 level  *)
(* with the NO ask above the target 0.64825 of an entry at 0.335, and at   *)
(* two prices within it.                                                   *)
TpPricePairs == {<<335, 670>>, <<335, 640>>, <<335, 600>>}

(* Seconds remaining the clock passes through. *)
TimePoints == {600, 420, 419, 300, 299, 0, -1}

MaxOrders == 1
OrderNames == <<"order-1", "order-2", "order-3">>
OrderIds == {OrderNames[i] : i \in 1..MaxOrders}

(* Longest ledger a directly driven strategy starts from. *)
MaxLedgerLen == 2

(* HIGH_SCALP fills counted in a market before the count stops growing. *)
MaxHsFills == 5

---------------------------------------------------------------------------
(* Configuration of MultiLevelScalpingStrategyV2.__init__ *)

entry_levels == <<340, 240, 140>>
level_size == 10
level_profit_target == 5
high_scalp_threshold == 850
high_scalp_size == 5
high_scalp_profit_target == 2
max_high_scalp_per_market == 4
min_time_for_level_entry == 420
force_unwind_time == 300
grace_period == 600
max_completed_cycles == 3
level_tolerance == 10

Sides == {"YES", "NO"}

(* The market the BTC bots trade, and the state of a program that is not   *)
(* the one running.                                                        *)
MarketId == "m"
NotRunning == [stage |-> "idle"]

Opposite(side) == IF side = "YES" THEN "NO" ELSE "YES"

---------------------------------------------------------------------------
(* Intents (ScalpSignal).  token is the token the order is for. *)

Signal(action, token, price, size, urgency, side, hs, level) ==
    [action |-> action, token |-> token, price |-> price, size |-> size,
     urgency |-> urgency, side |-> side, is_high_price_scalp |-> hs,
     level |-> level]

NoSignal == Signal("NONE", "NONE", 0, 0, "NONE", "NONE", FALSE, 0)

IsEnter(sig) == sig.action \in {"ENTER_YES", "ENTER_NO"}

---------------------------------------------------------------------------
(* Sums over a position list *)

RECURSIVE SumSize(_)
SumSize(ps) == IF ps = <<>> THEN 0 ELSE Head(ps).size + SumSize(Tail(ps))

RECURSIVE SumCost(_)
SumCost(ps) ==
    IF ps = <<>> THEN 0 ELSE Head(ps).size * Head(ps).entry_price + SumCost(Tail(ps))

(* The side filter with its comparison inverted. *)
OnSide_Inverted(ps, side) == SelectSeq(ps, LAMBDA p : p.side # side)

(* [p for p in positions if p.side == side] *)
OnSide(ps, side) == SelectSeq(ps, LAMBDA p : p.side = side)
NotOnSide(ps, side) == SelectSeq(ps, LAMBDA p : p.side # side)

(* The take-profit test passing at every price. *)
TargetMet_Always(ps, profit_target, current_exit) == TRUE

(* current_exit <= 1.0 - (1.0 + profit_target) * avg_entry *)
TargetMet(ps, profit_target, current_exit) ==
    100 * current_exit * SumSize(ps)
        <= 100000 * SumSize(ps) - (100 + profit_target) * SumCost(ps)

---------------------------------------------------------------------------
(* MultiLevelScalpingStrategyV2 *)

LevelPosition(side, price, size, hs, profit_target) ==
    [side |-> side, entry_price |-> price, size |-> size,
     is_high_scalp |-> hs, profit_target |-> profit_target]

(* on_exit_filled counting a cycle whatever the classification. *)
on_exit_filled_CountsAlways(ps, cycles, side, is_high_scalp) ==
    [positions |-> SelectSeq(ps, LAMBDA p : p.side # side),
     completed_cycles |-> cycles + 1]

on_order_filled(ps, side, price, size, hs, profit_target) ==
    Append(ps, LevelPosition(side, price, size, hs, profit_target))

(* on_exit_filled: the ledger [positions, completed_cycles] after the call *)
on_exit_filled(ps, cycles, side, is_high_scalp) ==
    LET removed_positions == OnSide(ps, side)
    IN  [positions |-> NotOnSide(ps, side),
         completed_cycles |->
             IF ~is_high_scalp /\ removed_positions # <<>>
             THEN cycles + 1 ELSE cycles]

count_high_scalp_positions(ps) == Len(SelectSeq(ps, LAMBDA p : p.is_high_scalp))
get_level_positions(ps) == SelectSeq(ps, LAMBDA p : ~p.is_high_scalp)
get_high_scalp_positions(ps) == SelectSeq(ps, LAMBDA p : p.is_high_scalp)

Abs(x) == IF x < 0 THEN -x ELSE x

has_position_at_level(ps, level) ==
    \E i \in 1..Len(get_level_positions(ps)) :
        Abs(get_level_positions(ps)[i].entry_price - level) < level_tolerance

(* _check_force_unwind never asking for an unwind. *)
check_force_unwind_Never(ps, yes_price, no_price) == NoSignal

(* _check_force_unwind taking the NO side on a tie. *)
check_force_unwind_NoOnTie(ps, yes_price, no_price) ==
    LET level_positions == get_level_positions(ps)
        yes_positions == OnSide(level_positions, "YES")
        no_positions == OnSide(level_positions, "NO")
    IN  IF level_positions = <<>> THEN NoSignal
        ELSE IF yes_positions # <<>>
                /\ (no_positions = <<>> \/ SumSize(yes_positions) > SumSize(no_positions))
        THEN Signal("EXIT", "NO", no_price, SumSize(yes_positions), "CRITICAL", "YES", FALSE, 0)
        ELSE Signal("EXIT", "YES", yes_price, SumSize(no_positions), "CRITICAL", "NO", FALSE, 0)

check_force_unwind(ps, yes_price, no_price) ==
    LET level_positions == get_level_positions(ps)
        yes_positions == OnSide(level_positions, "YES")
        no_positions == OnSide(level_positions, "NO")
        total_yes_size == SumSize(yes_positions)
        total_no_size == SumSize(no_positions)
    IN  IF level_positions = <<>> THEN NoSignal
        ELSE IF yes_positions # <<>>
                /\ (no_positions = <<>> \/ total_yes_size >= total_no_size)
        THEN Signal("EXIT", "NO", no_price, total_yes_size, "CRITICAL", "YES", FALSE, 0)
        ELSE IF no_positions # <<>>
        THEN Signal("EXIT", "YES", yes_price, total_no_size, "CRITICAL", "NO", FALSE, 0)
        ELSE NoSignal

check_level_exit(ps, yes_price, no_price) ==
    LET level_positions == get_level_positions(ps)
        yes_positions == OnSide(level_positions, "YES")
        no_positions == OnSide(level_positions, "NO")
    IN  IF level_positions = <<>> THEN NoSignal
        ELSE IF yes_positions # <<>>
                /\ TargetMet(yes_positions, level_profit_target, no_price)
        THEN Signal("PLACE_TP_LIMIT", "NO", no_price, SumSize(yes_positions),
                    "MEDIUM", "YES", FALSE, 0)
        ELSE IF no_positions # <<>>
                /\ TargetMet(no_positions, level_profit_target, yes_price)
        THEN Signal("PLACE_TP_LIMIT", "YES", yes_price, SumSize(no_positions),
                    "MEDIUM", "NO", FALSE, 0)
        ELSE NoSignal

check_high_scalp_exit(ps, yes_price, no_price) ==
    LET high_scalp_positions == get_high_scalp_positions(ps)
        yes_positions == OnSide(high_scalp_positions, "YES")
        no_positions == OnSide(high_scalp_positions, "NO")
    IN  IF high_scalp_positions = <<>> THEN NoSignal
        ELSE IF yes_positions # <<>>
                /\ TargetMet(yes_positions, high_scalp_profit_target, no_price)
        THEN Signal("EXIT", "NO", no_price, SumSize(yes_positions),
                    "HIGH", "YES", TRUE, 0)
        ELSE IF no_positions # <<>>
                /\ TargetMet(no_positions, high_scalp_profit_target, yes_price)
        THEN Signal("EXIT", "YES", yes_price, SumSize(no_positions),
                    "HIGH", "NO", TRUE, 0)
        ELSE NoSignal

(* The cycle cap tested with > instead of >=. *)
CycleCapReached_OffByOne(cycles) == cycles > max_completed_cycles

(* if cycles >= self.max_completed_cycles: return None *)
CycleCapReached(cycles) == cycles >= max_completed_cycles

(* The first level of entry_levels, in list order, that the loop of        *)
(* _check_level_entry returns on: price below it, no LEVEL position near   *)
(* it, and no LEVEL position on the other side.  0 when the loop ends.     *)
RECURSIVE FirstEntryLevel(_, _, _, _)
FirstEntryLevel(i, ps, price, other_side_positions) ==
    IF i > Len(entry_levels) THEN 0
    ELSE IF price < entry_levels[i]
            /\ ~has_position_at_level(ps, entry_levels[i])
            /\ other_side_positions = <<>>
    THEN entry_levels[i]
    ELSE FirstEntryLevel(i + 1, ps, price, other_side_positions)

check_level_entry(ps, cycles, yes_price, no_price, time_remaining) ==
    LET level_positions == get_level_positions(ps)
        yes_positions == OnSide(level_positions, "YES")
        no_positions == OnSide(level_positions, "NO")
        yes_level == FirstEntryLevel(1, ps, yes_price, no_positions)
        no_level == FirstEntryLevel(1, ps, no_price, yes_positions)
    IN  IF time_remaining < min_time_for_level_entry THEN NoSignal
        ELSE IF CycleCapReached(cycles) THEN NoSignal
        ELSE IF yes_positions # <<>> /\ no_positions # <<>> THEN NoSignal
        ELSE IF yes_level # 0
        THEN Signal("ENTER_YES", "YES", yes_price, level_size, "MEDIUM", "YES",
                    FALSE, yes_level)
        ELSE IF no_level # 0
        THEN Signal("ENTER_NO", "NO", no_price, level_size, "MEDIUM", "NO",
                    FALSE, no_level)
        ELSE NoSignal

(* check_high_scalp_entry without its "one at a time" test. *)
check_high_scalp_entry_NoOpenCheck(ps, yes_price, no_price, time_remaining) ==
    IF time_remaining >= force_unwind_time THEN NoSignal
    ELSE IF count_high_scalp_positions(ps) >= max_high_scalp_per_market THEN NoSignal
    ELSE IF yes_price >= high_scalp_threshold
    THEN Signal("ENTER_YES", "YES", yes_price, high_scalp_size, "HIGH", "YES",
                TRUE, yes_price)
    ELSE IF no_price >= high_scalp_threshold
    THEN Signal("ENTER_NO", "NO", no_price, high_scalp_size, "HIGH", "NO",
                TRUE, no_price)
    ELSE NoSignal

check_high_scalp_entry(ps, yes_price, no_price, time_remaining) ==
    IF time_remaining >= force_unwind_time THEN NoSignal
    ELSE IF count_high_scalp_positions(ps) >= max_high_scalp_per_market THEN NoSignal
    ELSE IF get_high_scalp_positions(ps) # <<>> THEN NoSignal
    ELSE IF yes_price >= high_scalp_threshold
    THEN Signal("ENTER_YES", "YES", yes_price, high_scalp_size, "HIGH", "YES",
                TRUE, yes_price)
    ELSE IF no_price >= high_scalp_threshold
    THEN Signal("ENTER_NO", "NO", no_price, high_scalp_size, "HIGH", "NO",
                TRUE, no_price)
    ELSE NoSignal

(* evaluate_market without its forced-unwind branch. *)
evaluate_market_Ungated(ps, cycles, yes_price, no_price, time_remaining) ==
    IF check_level_exit(ps, yes_price, no_price) # NoSignal
    THEN check_level_exit(ps, yes_price, no_price)
    ELSE check_level_entry(ps, cycles, yes_price, no_price, time_remaining)

(* evaluate_market: first match wins *)
evaluate_market(ps, cycles, yes_price, no_price, time_remaining) ==
    IF time_remaining < force_unwind_time
    THEN IF check_force_unwind(ps, yes_price, no_price) # NoSignal
         THEN check_force_unwind(ps, yes_price, no_price)
         ELSE IF check_high_scalp_exit(ps, yes_price, no_price) # NoSignal
         THEN check_high_scalp_exit(ps, yes_price, no_price)
         ELSE check_high_scalp_entry(ps, yes_price, no_price, time_remaining)
    ELSE IF check_level_exit(ps, yes_price, no_price) # NoSignal
         THEN check_level_exit(ps, yes_price, no_price)
         ELSE check_level_entry(ps, cycles, yes_price, no_price, time_remaining)

---------------------------------------------------------------------------
(* MultiLevelScalpingStrategy (V1).  Its entry levels, sizes and profit    *)
(* targets have the values of V2's.  A result is a record: the intent and  *)
(* the strategy fields the call wrote.                                     *)

max_trades_per_market == 3
max_high_scalp_count == 4
enable_high_price_scalping == TRUE
late_profit_target == 2

v1_on_order_filled(ps, hs_count, side, price, size, hs, profit_target) ==
    [positions |-> Append(ps, LevelPosition(side, price, size, hs, profit_target)),
     high_scalp_count |-> IF hs THEN hs_count + 1 ELSE hs_count]

(* V1 on_exit_filled: every position of the side goes; the TP bookkeeping  *)
(* is cleared; the count grows when the fill is not flagged high-scalp and *)
(* no LEVEL position is left.                                              *)
v1_on_exit_filled(ps, count, side, is_high_price_scalp) ==
    [positions |-> NotOnSide(ps, side),
     active_exit_orders |-> <<>>,
     exit_signal_recent |-> FALSE,
     trade_count |->
         IF ~is_high_price_scalp /\ get_level_positions(NotOnSide(ps, side)) = <<>>
         THEN count + 1 ELSE count]

(* The loop "for i in reversed(range(len(entry_levels)))" of _check_entry: *)
(* the lowest level above the price that the side has not entered, or 0.   *)
RECURSIVE LowestUnenteredLevel(_, _, _, _)
LowestUnenteredLevel(i, side, price, entered) ==
    IF i < 1 THEN 0
    ELSE IF price < entry_levels[i] /\ <<side, entry_levels[i]>> \notin entered
    THEN entry_levels[i]
    ELSE LowestUnenteredLevel(i - 1, side, price, entered)

(* _check_entry without the check of active_exit_orders. *)
v1_check_entry_IgnoresTp(entered, count, exit_orders, yes_price, no_price, time_remaining) ==
    LET yes_level == LowestUnenteredLevel(Len(entry_levels), "YES", yes_price, entered)
        no_level == LowestUnenteredLevel(Len(entry_levels), "NO", no_price, entered)
    IN  IF count >= max_trades_per_market \/ time_remaining < 420 \/ yes_level + no_level = 0
        THEN [sig |-> NoSignal, last_entry_time |-> entered]
        ELSE IF yes_level # 0
        THEN [sig |-> Signal("ENTER_YES", "YES", yes_price, level_size, "MEDIUM",
                             "YES", FALSE, yes_level),
              last_entry_time |-> entered \cup {<<"YES", yes_level>>}]
        ELSE [sig |-> Signal("ENTER_NO", "NO", no_price, level_size, "MEDIUM",
                             "NO", FALSE, no_level),
              last_entry_time |-> entered \cup {<<"NO", no_level>>}]

v1_check_entry(entered, count, exit_orders, yes_price, no_price, time_remaining) ==
    LET yes_level == LowestUnenteredLevel(Len(entry_levels), "YES", yes_price, entered)
        no_level == LowestUnenteredLevel(Len(entry_levels), "NO", no_price, entered)
        none == [sig |-> NoSignal, last_entry_time |-> entered]
    IN  IF count >= max_trades_per_market THEN none
        ELSE IF time_remaining < 300 THEN none
        ELSE IF time_remaining < 420 THEN none
        ELSE IF exit_orders # <<>> THEN none
        ELSE IF yes_level # 0
        THEN [sig |-> Signal("ENTER_YES", "YES", yes_price, level_size, "MEDIUM",
                             "YES", FALSE, yes_level),
              last_entry_time |-> entered \cup {<<"YES", yes_level>>}]
        ELSE IF no_level # 0
        THEN [sig |-> Signal("ENTER_NO", "NO", no_price, level_size, "MEDIUM",
                             "NO", FALSE, no_level),
              last_entry_time |-> entered \cup {<<"NO", no_level>>}]
        ELSE none

v1_check_high_price_scalping(ps, exit_orders, hs_count, yes_price, no_price, time_remaining) ==
    IF ~enable_high_price_scalping THEN NoSignal
    ELSE IF time_remaining >= 300 THEN NoSignal
    ELSE IF get_high_scalp_positions(ps) # <<>> \/ exit_orders # <<>> THEN NoSignal
    ELSE IF hs_count >= max_high_scalp_count THEN NoSignal
    ELSE IF yes_price >= high_scalp_threshold
    THEN Signal("ENTER_YES", "YES", yes_price, high_scalp_size, "HIGH", "YES",
                TRUE, yes_price)
    ELSE IF no_price >= high_scalp_threshold
    THEN Signal("ENTER_NO", "NO", no_price, high_scalp_size, "HIGH", "NO",
                TRUE, no_price)
    ELSE NoSignal

(* One side's block of _check_exit: the intent for the positions of side   *)
(* when the unwind price current_exit meets their target, else NoSignal.   *)
v1_side_exit(side_positions, side, current_exit, time_remaining) ==
    LET is_high_price_scalp ==
            \E i \in 1..Len(side_positions) : side_positions[i].is_high_scalp
        profit_target ==
            IF is_high_price_scalp THEN high_scalp_profit_target
            ELSE IF time_remaining <= 300 THEN late_profit_target
            ELSE level_profit_target
    IN  IF side_positions = <<>> THEN NoSignal
        ELSE IF ~TargetMet(side_positions, profit_target, current_exit) THEN NoSignal
        ELSE IF is_high_price_scalp
        THEN Signal("EXIT", Opposite(side), current_exit, SumSize(side_positions),
                    "HIGH", side, TRUE, 0)
        ELSE IF time_remaining <= 300
        THEN Signal("EXIT", Opposite(side), current_exit, SumSize(side_positions),
                    "HIGH", side, FALSE, 0)
        ELSE Signal("PLACE_TP_LIMIT", Opposite(side), current_exit,
                    SumSize(side_positions), "HIGH", side, FALSE, 0)

(* _check_exit never finding a target met. *)
v1_check_exit_Never(ps, recent, yes_price, no_price, time_remaining) == NoSignal

(* _check_exit; recent: an exit intent was recorded less than 1 s ago *)
v1_check_exit(ps, recent, yes_price, no_price, time_remaining) ==
    LET yes_exit == v1_side_exit(OnSide(ps, "YES"), "YES", no_price, time_remaining)
        no_exit == v1_side_exit(OnSide(ps, "NO"), "NO", yes_price, time_remaining)
    IN  IF ps = <<>> THEN NoSignal
        ELSE IF recent THEN NoSignal
        ELSE IF yes_exit # NoSignal THEN yes_exit
        ELSE no_exit

(* _force_unwind; pos_yes, pos_no: ctx.position_yes, ctx.position_no *)
v1_force_unwind(ps, pos_yes, pos_no, yes_price, no_price) ==
    LET level_positions == get_level_positions(ps)
        yes_positions == OnSide(level_positions, "YES")
        no_positions == OnSide(level_positions, "NO")
        total_yes_size == SumSize(yes_positions)
        total_no_size == SumSize(no_positions)
    IN  IF ps = <<>>
        THEN IF pos_yes > 0 /\ (pos_no = 0 \/ pos_yes >= pos_no)
             THEN Signal("EXIT", "NO", no_price, pos_yes, "CRITICAL", "YES", FALSE, 0)
             ELSE IF pos_no > 0
             THEN Signal("EXIT", "YES", yes_price, pos_no, "CRITICAL", "NO", FALSE, 0)
             ELSE NoSignal
        ELSE IF level_positions = <<>> THEN NoSignal
        ELSE IF yes_positions # <<>>
                /\ (no_positions = <<>> \/ total_yes_size >= total_no_size)
        THEN Signal("EXIT", "NO", no_price, total_yes_size, "CRITICAL", "YES", FALSE, 0)
        ELSE IF no_positions # <<>>
        THEN Signal("EXIT", "YES", yes_price, total_no_size, "CRITICAL", "NO", FALSE, 0)
        ELSE NoSignal

(* V1 evaluate_market.  st: the strategy's fields for the market. *)
v1_evaluate_market(st, pos_yes, pos_no, yes_price, no_price, time_remaining) ==
    LET unwind == v1_force_unwind(st.positions, pos_yes, pos_no, yes_price, no_price)
        exit == v1_check_exit(st.positions, st.exit_signal_recent, yes_price,
                              no_price, time_remaining)
        entry == v1_check_entry(st.last_entry_time, st.trade_count,
                                st.active_exit_orders, yes_price, no_price,
                                time_remaining)
        same == [last_entry_time |-> st.last_entry_time,
                 exit_signal_recent |-> st.exit_signal_recent]
    IN  IF time_remaining <= 300
        THEN IF st.positions # <<>> /\ unwind # NoSignal
             THEN [sig |-> unwind] @@ same
             ELSE [sig |-> v1_check_high_price_scalping(
                               st.positions, st.active_exit_orders,
                               st.high_scalp_count, yes_price, no_price,
                               time_remaining)] @@ same
        ELSE IF exit # NoSignal
        THEN [sig |-> exit, last_entry_time |-> st.last_entry_time,
              exit_signal_recent |-> TRUE]
        ELSE [sig |-> entry.sig, last_entry_time |-> entry.last_entry_time,
              exit_signal_recent |-> st.exit_signal_recent]

---------------------------------------------------------------------------
(* The venue.  A marketable order is either rejected or executed; an       *)
(* accepted post-only order rests until the venue fills it or it is        *)
(* cancelled.  cancel_order may fail and then leaves the order resting.    *)

RangeOf(seq) == {seq[i] : i \in 1..Len(seq)}

VenueCancel(resting, order_ids, cancel_ok) ==
    IF cancel_ok THEN resting \ RangeOf(order_ids) ELSE resting

(* What one step did: the intent returned, what became of it, the number  *)
(* of the bot's orders resting at the venue when an EXIT order was sent,   *)
(* and the orders an EXIT or PLACE_TP_LIMIT step sent to the venue.        *)
StepOrders(op, sig, outcome, stale, orders) ==
    [op |-> op, sig |-> sig, outcome |-> outcome, stale |-> stale,
     orders |-> orders]

Step(op, sig, outcome, stale) == StepOrders(op, sig, outcome, stale, <<>>)

NoStep(op) == Step(op, NoSignal, "none", 0)

ProfitTargetOf(sig) ==
    IF sig.is_high_price_scalp THEN high_scalp_profit_target ELSE level_profit_target

(* The observations kept about a market, each kept only while it is being  *)
(* watched.  tp_price: the price of the last PLACE_TP_LIMIT intent         *)
(* returned since the LEVEL positions last changed; attempt_price: the     *)
(* price of the last TP order the bot went on to place for them;           *)
(* exit_intent_recent: an EXIT or PLACE_TP_LIMIT intent was returned by    *)
(* _check_exit less than 1 s ago; hs_fills: HIGH_SCALP entries filled.     *)
(* A price of 0 stands for "none".                                         *)
Watching(watch) ==
    [watch |-> watch, tp_price |-> 0, attempt_price |-> 0,
     exit_intent_recent |-> FALSE, hs_fills |-> 0]

NoHistory == Watching({})

(* The observations after an evaluation that returned sig.  attempted: the *)
(* bot went on to place a TP order; ledger_changed: the LEVEL positions    *)
(* changed; debounced: the intent came from _check_exit; hs_filled: a      *)
(* HIGH_SCALP entry was filled.                                            *)
Observe(h, sig, attempted, ledger_changed, debounced, hs_filled) ==
    [watch |-> h.watch,
     tp_price |-> IF "tp" \notin h.watch \/ ledger_changed THEN 0
                  ELSE IF sig.action = "PLACE_TP_LIMIT" THEN sig.price
                  ELSE h.tp_price,
     attempt_price |-> IF "tp" \notin h.watch \/ ledger_changed THEN 0
                       ELSE IF attempted THEN sig.price
                       ELSE h.attempt_price,
     exit_intent_recent |->
         "debounce" \in h.watch /\ (h.exit_intent_recent \/ debounced),
     hs_fills |-> IF "hs" \in h.watch /\ hs_filled THEN h.hs_fills + 1
                  ELSE h.hs_fills]

(* No further HIGH_SCALP fill is counted once MaxHsFills were. *)
HsFillCounted(h, sig, accepted) ==
    (accepted /\ IsEnter(sig) /\ sig.is_high_price_scalp /\ "hs" \in h.watch)
        => h.hs_fills < MaxHsFills

---------------------------------------------------------------------------
(* BTCScalpingBotV2 *)

(* cancel_tp_orders: every tracked id is cancelled, then the list is cleared *)
cancel_tp_orders(resting, order_ids, cancel_ok) ==
    [resting |-> VenueCancel(resting, order_ids, cancel_ok), order_ids |-> <<>>]

(* execute_signal, PLACE_TP_LIMIT branch, order accepted: the ledger after it *)
V2TpAccepted(ps, cycles, sig) ==
    on_exit_filled(ps, cycles, sig.side, sig.is_high_price_scalp)

(* BTCScalpingBotV2.evaluate_market with execute_signal inlined.           *)
(* accepted: the venue's answer to the order; oid: the id it assigns.      *)
V2Evaluate(accepted, cancel_ok, oid) ==
    /\ bot = "BTCScalpingBotV2"
    /\ MarketId \in active_markets
    /\ ask_yes # 0 /\ ask_no # 0
    /\ LET gate == IF remaining < 300 /\ active_tp_orders # <<>>
                   THEN cancel_tp_orders(venue_resting, active_tp_orders, cancel_ok)
                   ELSE [resting |-> venue_resting, order_ids |-> active_tp_orders]
           sig == evaluate_market(v2_positions, completed_cycles, ask_yes, ask_no,
                                  remaining)
           pre == IF sig.action \in {"PLACE_TP_LIMIT", "EXIT"} /\ gate.order_ids # <<>>
                  THEN cancel_tp_orders(gate.resting, gate.order_ids, cancel_ok)
                  ELSE gate
           exited == on_exit_filled(v2_positions, completed_cycles, sig.side,
                                    sig.is_high_price_scalp)
       IN  /\ HsFillCounted(hist, sig, accepted)
           /\ CASE sig = NoSignal ->
                  /\ accepted /\ oid = OrderNames[1]
                  /\ venue_resting' = gate.resting
                  /\ active_tp_orders' = gate.order_ids
                  /\ last' = Step("evaluate", sig, "none", 0)
                  /\ UNCHANGED <<v2_positions, completed_cycles>>
             [] IsEnter(sig) ->
                  /\ oid = OrderNames[1]
                  /\ accepted => Len(v2_positions) < MaxPositions
                  /\ v2_positions' =
                        IF accepted
                        THEN on_order_filled(v2_positions, sig.side, sig.price, sig.size,
                                             sig.is_high_price_scalp, ProfitTargetOf(sig))
                        ELSE v2_positions
                  /\ venue_resting' = gate.resting
                  /\ active_tp_orders' = gate.order_ids
                  /\ last' = Step("evaluate", sig,
                                  IF accepted THEN "filled" ELSE "rejected", 0)
                  /\ UNCHANGED completed_cycles
             [] sig.action = "PLACE_TP_LIMIT" ->
                  /\ accepted => oid \notin pre.resting
                  /\ ~accepted => oid = OrderNames[1]
                  /\ venue_resting' = IF accepted THEN pre.resting \cup {oid}
                                      ELSE pre.resting
                  /\ active_tp_orders' = <<>>
                  /\ v2_positions' = IF accepted
                                     THEN V2TpAccepted(v2_positions, completed_cycles,
                                                       sig).positions
                                     ELSE v2_positions
                  /\ completed_cycles' =
                        IF accepted
                        THEN V2TpAccepted(v2_positions, completed_cycles,
                                          sig).completed_cycles
                        ELSE completed_cycles
                  /\ last' = StepOrders("evaluate", sig,
                                        IF accepted THEN "resting" ELSE "rejected", 0,
                                        IF gate.order_ids # <<>>
                                        THEN <<"CANCEL", "LIMIT">> ELSE <<"LIMIT">>)
             [] sig.action = "EXIT" ->
                  /\ oid = OrderNames[1]
                  /\ venue_resting' = pre.resting
                  /\ active_tp_orders' = pre.order_ids
                  /\ v2_positions' = IF accepted THEN exited.positions ELSE v2_positions
                  /\ completed_cycles' = IF accepted THEN exited.completed_cycles
                                         ELSE completed_cycles
                  /\ last' = StepOrders("evaluate", sig,
                                        IF accepted THEN "filled" ELSE "rejected",
                                        Cardinality(pre.resting), <<"BUY">>)
           /\ hist' = Observe(hist, sig, sig.action = "PLACE_TP_LIMIT",
                              get_level_positions(v2_positions')
                                  # get_level_positions(v2_positions),
                              FALSE,
                              accepted /\ IsEnter(sig) /\ sig.is_high_price_scalp)
    /\ UNCHANGED <<bot, envVars, v1Vars, ctxVars, rt, sysVars>>

---------------------------------------------------------------------------
(* WebBTCScalpingBot with MultiLevelScalpingStrategy                       *)

trading_enabled == TRUE

Max0(x) == IF x < 0 THEN 0 ELSE x

V1State ==
    [positions |-> v1_positions, last_entry_time |-> last_entry_time,
     trade_count |-> trade_count, high_scalp_count |-> high_scalp_count,
     active_exit_orders |-> active_exit_orders,
     exit_signal_recent |-> exit_signal_recent]

(* The exited side read the wrong way round. *)
WebExitSide_Inverted(pos_yes) == IF pos_yes > 0 THEN "NO" ELSE "YES"

(* execute_signal, EXIT branch: the side handed to on_exit_filled *)
WebExitSide(pos_yes) == IF pos_yes > 0 THEN "YES" ELSE "NO"

(* The EXIT branch counting the exit as done whatever the venue answered. *)
WebExitSuccess_Always(balance_ok, accepted, fallback_ok) == TRUE

(* execute_signal, EXIT branch: whether an order went through.  A BUY that *)
(* fails is retried as a SELL of the held token; with too little balance   *)
(* the SELL is the only order.                                             *)
WebExitSuccess(balance_ok, accepted, fallback_ok) ==
    IF balance_ok THEN accepted \/ fallback_ok ELSE accepted

(* execute_signal, EXIT branch: the orders sent.  With enough balance the  *)
(* BUY of the opposite token, followed by the SELL of the held token when  *)
(* the BUY is rejected; the SELL alone otherwise.                          *)
WebExitOrders(balance_ok, accepted) ==
    IF ~balance_ok THEN <<"SELL">>
    ELSE IF accepted THEN <<"BUY">>
    ELSE <<"BUY", "SELL">>

(* BTCScalpingBot.evaluate_market with WebBTCScalpingBot.execute_signal    *)
(* inlined.  accepted / fallback_ok: the venue's answers to the order and  *)
(* to the SELL fallback; balance_ok: get_usdc_balance covers the order;    *)
(* cancel_ok: the answer to cancel_order; oid: the id the venue assigns.   *)
WebEvaluate(accepted, fallback_ok, balance_ok, cancel_ok, oid) ==
    /\ bot = "WebBTCScalpingBot"
    /\ MarketId \in active_markets
    /\ ask_yes # 0 /\ ask_no # 0
    /\ LET ev == v1_evaluate_market(V1State, ctx_position_yes, ctx_position_no,
                                    ask_yes, ask_no, remaining)
           sig == ev.sig
           cancelled == VenueCancel(venue_resting, active_exit_orders, cancel_ok)
           success == WebExitSuccess(balance_ok, accepted, fallback_ok)
           side == WebExitSide(ctx_position_yes)
           filled == v1_on_order_filled(v1_positions, high_scalp_count, sig.side,
                                        sig.price, sig.size, sig.is_high_price_scalp,
                                        ProfitTargetOf(sig))
           exited == v1_on_exit_filled(v1_positions, trade_count, side, FALSE)
       IN  /\ HsFillCounted(hist, sig, accepted)
           /\ last_entry_time' = ev.last_entry_time
           /\ CASE sig = NoSignal \/ ~trading_enabled ->
                  /\ exit_signal_recent' = ev.exit_signal_recent
                  /\ last' = Step("evaluate", sig, "none", 0)
                  /\ UNCHANGED <<v1_positions, trade_count, high_scalp_count,
                                 active_exit_orders, ctxVars, venue_resting>>
             [] trading_enabled /\ IsEnter(sig) ->
                  /\ accepted => Len(v1_positions) < MaxPositions
                  /\ v1_positions' = IF accepted THEN filled.positions ELSE v1_positions
                  /\ high_scalp_count' = IF accepted THEN filled.high_scalp_count
                                         ELSE high_scalp_count
                  /\ ctx_position_yes' = IF accepted /\ sig.action = "ENTER_YES"
                                         THEN ctx_position_yes + sig.size
                                         ELSE ctx_position_yes
                  /\ ctx_position_no' = IF accepted /\ sig.action = "ENTER_NO"
                                        THEN ctx_position_no + sig.size
                                        ELSE ctx_position_no
                  /\ exit_signal_recent' = ev.exit_signal_recent
                  /\ last' = Step("evaluate", sig,
                                  IF accepted THEN "filled" ELSE "rejected", 0)
                  /\ UNCHANGED <<trade_count, active_exit_orders, venue_resting>>
             [] trading_enabled /\ sig.action = "PLACE_TP_LIMIT" ->
                  /\ (active_exit_orders = <<>> /\ balance_ok /\ accepted)
                         => oid \notin venue_resting
                  /\ active_exit_orders' =
                        IF active_exit_orders # <<>> THEN active_exit_orders
                        ELSE IF ~balance_ok THEN <<"insufficient-balance">>
                        ELSE IF accepted THEN <<oid>>
                        ELSE <<"failed-order">>
                  /\ venue_resting' =
                        IF active_exit_orders = <<>> /\ balance_ok /\ accepted
                        THEN venue_resting \cup {oid} ELSE venue_resting
                  /\ exit_signal_recent' = ev.exit_signal_recent
                  /\ last' = StepOrders("evaluate", sig,
                                        IF active_exit_orders # <<>> THEN "skipped"
                                        ELSE IF ~balance_ok THEN "insufficient-balance"
                                        ELSE IF accepted THEN "resting"
                                        ELSE "rejected", 0,
                                        IF active_exit_orders = <<>> /\ balance_ok
                                        THEN <<"LIMIT">> ELSE <<>>)
                  /\ UNCHANGED <<v1_positions, trade_count, high_scalp_count, ctxVars>>
             [] trading_enabled /\ sig.action = "EXIT" ->
                  /\ venue_resting' = cancelled
                  /\ v1_positions' = IF success THEN exited.positions ELSE v1_positions
                  /\ trade_count' = IF success THEN exited.trade_count ELSE trade_count
                  /\ active_exit_orders' = <<>>
                  /\ exit_signal_recent' = IF success THEN exited.exit_signal_recent
                                           ELSE ev.exit_signal_recent
                  /\ ctx_position_yes' =
                        IF success /\ ctx_position_yes > 0
                        THEN Max0(ctx_position_yes - sig.size) ELSE ctx_position_yes
                  /\ ctx_position_no' =
                        IF success /\ ~(ctx_position_yes > 0)
                        THEN Max0(ctx_position_no - sig.size) ELSE ctx_position_no
                  /\ last' = StepOrders("evaluate", sig,
                                        IF success THEN "filled" ELSE "rejected",
                                        Cardinality(cancelled),
                                        WebExitOrders(balance_ok, accepted))
                  /\ UNCHANGED high_scalp_count
           /\ hist' = Observe(hist, sig,
                              trading_enabled /\ sig.action = "PLACE_TP_LIMIT"
                                  /\ active_exit_orders = <<>>,
                              get_level_positions(v1_positions')
                                  # get_level_positions(v1_positions),
                              remaining > 300
                                  /\ sig.action \in {"EXIT", "PLACE_TP_LIMIT"},
                              trading_enabled /\ accepted /\ IsEnter(sig)
                                  /\ sig.is_high_price_scalp)
    /\ UNCHANGED <<bot, envVars, v2Vars, rt, sysVars>>

(* BTCScalpingBot (V1 bot).evaluate_market with execute_signal inlined.     *)
(* Its loop sleeps 2 s between two evaluations of a market, so no exit     *)
(* intent is ever less than 1 s old when the strategy is called; a TP      *)
(* order that is accepted is taken as filled at once.  accepted: the       *)
(* venue's answer to the order.                                            *)
V1BotEvaluate(accepted) ==
    /\ bot = "BTCScalpingBot"
    /\ MarketId \in active_markets
    /\ ask_yes # 0 /\ ask_no # 0
    /\ ~exit_signal_recent
    /\ LET ev == v1_evaluate_market(V1State, ctx_position_yes, ctx_position_no,
                                    ask_yes, ask_no, remaining)
           sig == ev.sig
           filled == v1_on_order_filled(v1_positions, high_scalp_count, sig.side,
                                        sig.price, sig.size, sig.is_high_price_scalp,
                                        ProfitTargetOf(sig))
           exit_side == IF sig.action = "PLACE_TP_LIMIT" THEN sig.side
                        ELSE WebExitSide(ctx_position_yes)
           zero_yes == IF sig.action = "PLACE_TP_LIMIT"
                       THEN sig.side = "YES" \/ ctx_position_yes > 0
                       ELSE ctx_position_yes > 0
           exited == v1_on_exit_filled(v1_positions, trade_count, exit_side,
                                       sig.is_high_price_scalp)
       IN  /\ last_entry_time' = ev.last_entry_time
           /\ exit_signal_recent' = FALSE
           /\ CASE sig = NoSignal ->
                  /\ accepted
                  /\ last' = Step("evaluate", sig, "none", 0)
                  /\ UNCHANGED <<v1_positions, trade_count, high_scalp_count,
                                 active_exit_orders, ctxVars>>
             [] IsEnter(sig) ->
                  /\ accepted => Len(v1_positions) < MaxPositions
                  /\ v1_positions' = IF accepted THEN filled.positions ELSE v1_positions
                  /\ high_scalp_count' = IF accepted THEN filled.high_scalp_count
                                         ELSE high_scalp_count
                  /\ ctx_position_yes' = IF accepted /\ sig.action = "ENTER_YES"
                                         THEN ctx_position_yes + sig.size
                                         ELSE ctx_position_yes
                  /\ ctx_position_no' = IF accepted /\ sig.action = "ENTER_NO"
                                        THEN ctx_position_no + sig.size
                                        ELSE ctx_position_no
                  /\ last' = StepOrders("evaluate", sig,
                                        IF accepted THEN "filled" ELSE "rejected", 0,
                                        <<"BUY">>)
                  /\ UNCHANGED <<trade_count, active_exit_orders>>
             [] sig.action \in {"PLACE_TP_LIMIT", "EXIT"} ->
                  /\ v1_positions' = IF accepted THEN exited.positions ELSE v1_positions
                  /\ trade_count' = IF accepted THEN exited.trade_count ELSE trade_count
                  /\ active_exit_orders' = IF accepted THEN exited.active_exit_orders
                                           ELSE active_exit_orders
                  /\ ctx_position_yes' = IF accepted /\ zero_yes THEN 0
                                         ELSE ctx_position_yes
                  /\ ctx_position_no' = IF accepted /\ ~zero_yes THEN 0
                                        ELSE ctx_position_no
                  /\ last' = StepOrders("evaluate", sig,
                                        IF accepted THEN "filled" ELSE "rejected", 0,
                                        <<"BUY">>)
                  /\ UNCHANGED high_scalp_count
    /\ UNCHANGED <<bot, envVars, venue_resting, v2Vars, rt, hist, sysVars>>

(* POST /api/emergency_unwind/{market_id}.  closed: whether the close      *)
(* orders it placed went through.                                          *)
EmergencyUnwind(closed) ==
    /\ bot = "WebBTCScalpingBot"
    /\ MarketId \in active_markets
    /\ v1_positions # <<>>
    /\ v1_positions' = <<>>
    /\ trade_count' = max_trades_per_market
    /\ last' = Step("emergency_unwind", NoSignal,
                    IF closed THEN "filled" ELSE "rejected", 0)
    /\ hist' = Observe(hist, NoSignal, FALSE, TRUE, FALSE, FALSE)
    /\ UNCHANGED <<bot, envVars, venue_resting, v2Vars, last_entry_time,
                   high_scalp_count, active_exit_orders, exit_signal_recent,
                   ctxVars, rt, sysVars>>

(* cleanup_expired_markets: a market is dropped from the bot's dicts once   *)
(* now > end_time + 600.  BTCScalpingBotV2 also drops its active_tp_orders *)
(* entry; the strategy object is not called.                               *)
CleanupExpiredMarkets ==
    /\ bot \in {"BTCScalpingBotV2", "BTCScalpingBot", "WebBTCScalpingBot"}
    /\ MarketId \in active_markets
    /\ remaining < -grace_period
    /\ active_markets' = active_markets \ {MarketId}
    /\ active_tp_orders' = IF bot = "BTCScalpingBotV2" THEN <<>> ELSE active_tp_orders
    /\ last' = NoStep("cleanup")
    /\ UNCHANGED <<bot, envVars, venue_resting, v2_positions, completed_cycles, v1Vars,
                   ctxVars, rt, hist, scalper, order_book, streamer>>

(* DELETE /api/remove_market/{market_id}: the market is deleted from the   *)
(* bot's active_markets, market_contexts and market_start_prices.          *)
RemoveMarket ==
    /\ bot = "WebBTCScalpingBot"
    /\ MarketId \in active_markets
    /\ active_markets' = active_markets \ {MarketId}
    /\ last' = NoStep("remove_market")
    /\ UNCHANGED <<bot, envVars, venue_resting, v2Vars, v1Vars, ctxVars, rt, hist,
                   scalper, order_book, streamer>>

---------------------------------------------------------------------------
(* The environment of a bot *)

(* The order-book mirror delivers new best asks. *)
PriceUpdate(y, n) ==
    /\ <<ask_yes, ask_no>> # <<y, n>>
    /\ ask_yes' = y
    /\ ask_no' = n
    /\ last' = NoStep("price")
    /\ UNCHANGED <<bot, remaining, venue_resting, v2Vars, v1Vars, ctxVars, rt, hist, sysVars>>

(* time.time() advances to another of the modelled instants. *)
ClockAdvance(t) ==
    /\ t < remaining
    /\ remaining' = t
    /\ exit_signal_recent' = FALSE
    /\ hist' = [hist EXCEPT !.exit_intent_recent = FALSE]
    /\ last' = NoStep("clock")
    /\ UNCHANGED <<bot, ask_yes, ask_no, venue_resting, v2Vars, v1_positions,
                   last_entry_time, trade_count, high_scalp_count,
                   active_exit_orders, ctxVars, rt, sysVars>>

(* A second passes without reaching the next modelled instant. *)
SecondElapses ==
    /\ exit_signal_recent \/ hist.exit_intent_recent
    /\ exit_signal_recent' = FALSE
    /\ hist' = [hist EXCEPT !.exit_intent_recent = FALSE]
    /\ last' = NoStep("second")
    /\ UNCHANGED <<bot, envVars, venue_resting, v2Vars, v1_positions,
                   last_entry_time, trade_count, high_scalp_count,
                   active_exit_orders, ctxVars, rt, sysVars>>

(* The venue fills a resting order; none of the bots listens for fills. *)
VenueFill(oid) ==
    /\ oid \in venue_resting
    /\ venue_resting' = venue_resting \ {oid}
    /\ last' = NoStep("venue_fill")
    /\ UNCHANGED <<bot, envVars, v2Vars, v1Vars, ctxVars, rt, hist, sysVars>>

---------------------------------------------------------------------------
(* A strategy driven directly: its fill callbacks applied to a ledger      *)
(* drawn from a bounded set.  rt remembers the ledger before the fill and  *)
(* the acknowledgement delivered.                                          *)

Idle == [stage |-> "idle"]

Strategies == {"MultiLevelScalpingStrategyV2", "MultiLevelScalpingStrategy"}

PositionValues ==
    {LevelPosition(side, 335, level_size, FALSE, level_profit_target) : side \in Sides}
    \cup {LevelPosition(side, 880, high_scalp_size, TRUE, high_scalp_profit_target) :
              side \in Sides}

Ledgers ==
    UNION {[1..n -> PositionValues] : n \in 0..MaxLedgerLen}

LedgerPositions == IF bot = "MultiLevelScalpingStrategyV2" THEN v2_positions
                   ELSE v1_positions

LedgerCount == IF bot = "MultiLevelScalpingStrategyV2" THEN completed_cycles
               ELSE trade_count

(* on_order_filled(side, ...) is called with a fill acknowledgement. *)
AckFill(side, price, hs) ==
    /\ bot \in Strategies
    /\ rt.stage \in {"idle", "filled"}
    /\ rt.stage = "filled" => <<side, price, hs>> = <<rt.side, rt.price, rt.hs>>
    /\ LET size == IF hs THEN high_scalp_size ELSE level_size
           target == IF hs THEN high_scalp_profit_target ELSE level_profit_target
           v1 == v1_on_order_filled(v1_positions, high_scalp_count, side, price,
                                    size, hs, target)
       IN  IF bot = "MultiLevelScalpingStrategyV2"
           THEN /\ v2_positions' = on_order_filled(v2_positions, side, price, size,
                                                   hs, target)
                /\ UNCHANGED <<v1_positions, high_scalp_count>>
           ELSE /\ v1_positions' = v1.positions
                /\ high_scalp_count' = v1.high_scalp_count
                /\ UNCHANGED v2_positions
    /\ rt' = IF rt.stage = "idle"
             THEN [stage |-> "filled", positions |-> LedgerPositions,
                   count |-> LedgerCount, side |-> side, price |-> price, hs |-> hs]
             ELSE [rt EXCEPT !.stage = "redelivered"]
    /\ last' = NoStep("ack")
    /\ UNCHANGED <<bot, envVars, venue_resting, completed_cycles, active_tp_orders,
                   last_entry_time, trade_count, active_exit_orders,
                   exit_signal_recent, ctxVars, hist, sysVars>>

(* on_exit_filled(side, is_high_scalp) is called for the side just filled. *)
AckExitFill(is_high_scalp) ==
    /\ bot \in Strategies
    /\ rt.stage = "filled"
    /\ LET v2 == on_exit_filled(v2_positions, completed_cycles, rt.side, is_high_scalp)
           v1 == v1_on_exit_filled(v1_positions, trade_count, rt.side, is_high_scalp)
       IN  IF bot = "MultiLevelScalpingStrategyV2"
           THEN /\ v2_positions' = v2.positions
                /\ completed_cycles' = v2.completed_cycles
                /\ UNCHANGED <<v1_positions, trade_count, active_exit_orders,
                               exit_signal_recent>>
           ELSE /\ v1_positions' = v1.positions
                /\ trade_count' = v1.trade_count
                /\ active_exit_orders' = v1.active_exit_orders
                /\ exit_signal_recent' = v1.exit_signal_recent
                /\ UNCHANGED <<v2_positions, completed_cycles>>
    /\ rt' = [rt EXCEPT !.stage = "exited"] @@ [exit_hs |-> is_high_scalp]
    /\ last' = NoStep("ack")
    /\ UNCHANGED <<bot, envVars, venue_resting, active_tp_orders, last_entry_time,
                   high_scalp_count, ctxVars, hist, sysVars>>

---------------------------------------------------------------------------
(* MultiLevelScalpingStrategy called directly, as any bot calls it:         *)
(* evaluate_market at any moment, on_order_filled for the entry it last    *)
(* returned, on_exit_filled for a side that holds positions.               *)

StrategyEvaluate ==
    /\ bot = "MultiLevelScalpingStrategy"
    /\ ask_yes # 0 /\ ask_no # 0
    /\ LET ev == v1_evaluate_market(V1State, ctx_position_yes, ctx_position_no,
                                    ask_yes, ask_no, remaining)
       IN  /\ last_entry_time' = ev.last_entry_time
           /\ exit_signal_recent' = ev.exit_signal_recent
           /\ last' = Step("evaluate", ev.sig, "none", 0)
           /\ hist' = Observe(hist, ev.sig, FALSE, FALSE,
                              remaining > 300
                                  /\ ev.sig.action \in {"EXIT", "PLACE_TP_LIMIT"},
                              FALSE)
    /\ UNCHANGED <<bot, envVars, venue_resting, v2Vars, v1_positions, trade_count,
                   high_scalp_count, active_exit_orders, ctxVars, rt, sysVars>>

StrategyFill ==
    /\ bot = "MultiLevelScalpingStrategy"
    /\ last.op = "evaluate" /\ IsEnter(last.sig)
    /\ Len(v1_positions) < MaxPositions
    /\ LET filled == v1_on_order_filled(v1_positions, high_scalp_count, last.sig.side,
                                        last.sig.price, last.sig.size,
                                        last.sig.is_high_price_scalp,
                                        ProfitTargetOf(last.sig))
       IN  /\ v1_positions' = filled.positions
           /\ high_scalp_count' = filled.high_scalp_count
    /\ last' = NoStep("fill")
    /\ UNCHANGED <<bot, envVars, venue_resting, v2Vars, last_entry_time, trade_count,
                   active_exit_orders, exit_signal_recent, ctxVars, rt, hist, sysVars>>

StrategyExitFill(side, is_high_price_scalp) ==
    /\ bot = "MultiLevelScalpingStrategy"
    /\ OnSide(v1_positions, side) # <<>>
    /\ trade_count < MaxCycleCount
    /\ LET exited == v1_on_exit_filled(v1_positions, trade_count, side,
                                       is_high_price_scalp)
       IN  /\ v1_positions' = exited.positions
           /\ trade_count' = exited.trade_count
           /\ active_exit_orders' = exited.active_exit_orders
           /\ exit_signal_recent' = exited.exit_signal_recent
    /\ last' = NoStep("exit_fill")
    /\ UNCHANGED <<bot, envVars, venue_resting, v2Vars, last_entry_time,
                   high_scalp_count, ctxVars, rt, hist, sysVars>>

(* evaluate_market recording the entry it returns as a position, as if the *)
(* intent were a fill.                                                     *)
V2StrategyEvaluate_RecordsEntry ==
    /\ bot = "MultiLevelScalpingStrategyV2"
    /\ ask_yes # 0 /\ ask_no # 0
    /\ LET sig == evaluate_market(v2_positions, completed_cycles, ask_yes, ask_no, remaining)
       IN  /\ last' = Step("evaluate", sig, "none", 0)
           /\ v2_positions' =
                  IF IsEnter(sig) /\ Len(v2_positions) < MaxPositions
                  THEN on_order_filled(v2_positions, sig.side, sig.price, sig.size,
                                       sig.is_high_price_scalp, ProfitTargetOf(sig))
                  ELSE v2_positions
    /\ UNCHANGED <<bot, envVars, venue_resting, completed_cycles, active_tp_orders, v1Vars,
                   ctxVars, rt, hist, sysVars>>

(* MultiLevelScalpingStrategyV2.evaluate_market called directly. *)
V2StrategyEvaluate ==
    /\ bot = "MultiLevelScalpingStrategyV2"
    /\ ask_yes # 0 /\ ask_no # 0
    /\ last' = Step("evaluate",
                    evaluate_market(v2_positions, completed_cycles, ask_yes, ask_no,
                                    remaining),
                    "none", 0)
    /\ UNCHANGED <<bot, envVars, venue_resting, v2Vars, v1Vars, ctxVars, rt, hist, sysVars>>

---------------------------------------------------------------------------
(* tracker.OrderBook: two maps price -> size, updated level by level.      *)

BookPrices == {480, 500, 520}
BookSizes == {0, 5, 10}
MaxUpdates == 2

EmptyMap == [p \in {} |-> 0]

(* The lists of {price, size} a message can carry for one side; a message  *)
(* carries at most MaxUpdates levels in all.                               *)
UpdateLists ==
    UNION {[1..n -> [price : BookPrices, size : BookSizes]] : n \in 0..MaxUpdates}

(* _update_side: size 0 deletes the level when present, any other size     *)
(* stores it.                                                              *)
RECURSIVE update_side(_, _)
update_side(side_map, updates) ==
    IF updates = <<>> THEN side_map
    ELSE LET u == Head(updates)
             next == IF u.size = 0
                     THEN [p \in DOMAIN side_map \ {u.price} |-> side_map[p]]
                     ELSE [p \in DOMAIN side_map \cup {u.price} |->
                              IF p = u.price THEN u.size ELSE side_map[p]]
         IN  update_side(next, Tail(updates))

(* max(self._bids.keys()) / min(self._asks.keys()), 0 when the map is empty *)
get_best_bid(ob) ==
    IF DOMAIN ob.bids = {} THEN 0
    ELSE CHOOSE p \in DOMAIN ob.bids : \A q \in DOMAIN ob.bids : q <= p

get_best_ask(ob) ==
    IF DOMAIN ob.asks = {} THEN 0
    ELSE CHOOSE p \in DOMAIN ob.asks : \A q \in DOMAIN ob.asks : p <= q

(* OrderBook.update(bids, asks): a snapshot item carries both lists, a      *)
(* price_change one level of one side.                                     *)
OrderBookUpdate(bids, asks) ==
    /\ bot = "OrderBook"
    /\ order_book' = [bids |-> update_side(order_book.bids, bids),
                      asks |-> update_side(order_book.asks, asks)]
    /\ UNCHANGED <<bot, botVars, active_markets, scalper, streamer>>

(* OrderBook.clear() *)
OrderBookClear ==
    /\ bot = "OrderBook"
    /\ order_book' = [bids |-> EmptyMap, asks |-> EmptyMap]
    /\ UNCHANGED <<bot, botVars, active_markets, scalper, streamer>>

---------------------------------------------------------------------------
(* Initial states and specifications *)

InitMarket ==
    /\ ask_yes = 0
    /\ ask_no = 0
    /\ remaining = 600
    /\ venue_resting = {}
    /\ last = NoStep("init")
    /\ active_tp_orders = <<>>
    /\ last_entry_time = {}
    /\ high_scalp_count = 0
    /\ active_exit_orders = <<>>
    /\ exit_signal_recent = FALSE
    /\ ctx_position_yes = 0
    /\ ctx_position_no = 0
    /\ rt = Idle

InitEnv ==
    /\ InitMarket
    /\ active_markets = {MarketId}
    /\ scalper = NotRunning
    /\ order_book = NotRunning
    /\ streamer = NotRunning

(* The BTC bots' variables when another program is the one running. *)
BotsUnused ==
    /\ InitMarket
    /\ hist = NoHistory
    /\ v2_positions = <<>> /\ completed_cycles = 0
    /\ v1_positions = <<>> /\ trade_count = 0

InitEmpty ==
    /\ InitEnv
    /\ hist = NoHistory
    /\ v2_positions = <<>>
    /\ completed_cycles = 0
    /\ v1_positions = <<>>
    /\ trade_count = 0

InitV2 == bot = "BTCScalpingBotV2" /\ InitEmpty

InitWeb == bot = "WebBTCScalpingBot" /\ InitEmpty

Init == bot \in {"BTCScalpingBotV2", "WebBTCScalpingBot"} /\ InitEmpty

InitLedger ==
    /\ InitEnv
    /\ hist = NoHistory
    /\ bot \in Strategies
    /\ \E ps \in Ledgers, n \in 0..MaxCycleCount :
          IF bot = "MultiLevelScalpingStrategyV2"
          THEN /\ v2_positions = ps /\ completed_cycles = n
               /\ v1_positions = <<>> /\ trade_count = 0
          ELSE /\ v1_positions = ps /\ trade_count = n
               /\ v2_positions = <<>> /\ completed_cycles = 0

(* The books the running program is given. *)
BookPairs == IF bot = "WebBTCScalpingBot" THEN WebPricePairs ELSE PricePairs

Environment ==
    \/ \E pp \in BookPairs : PriceUpdate(pp[1], pp[2])
    \/ \E t \in TimePoints : ClockAdvance(t)
    \/ \E oid \in OrderIds : VenueFill(oid)

NextV2 ==
    \/ Environment
    \/ \E accepted \in BOOLEAN, cancel_ok \in BOOLEAN, oid \in OrderIds :
           V2Evaluate(accepted, cancel_ok, oid)

NextWeb ==
    \/ Environment
    \/ SecondElapses
    \/ \E accepted \in BOOLEAN, fallback_ok \in BOOLEAN, balance_ok \in BOOLEAN,
          cancel_ok \in BOOLEAN, oid \in OrderIds :
           WebEvaluate(accepted, fallback_ok, balance_ok, cancel_ok, oid)
    \/ \E closed \in BOOLEAN : EmergencyUnwind(closed)

NextLedger ==
    \/ \E side \in Sides, hs \in BOOLEAN :
           AckFill(side, IF hs THEN 880 ELSE 335, hs)
    \/ \E is_high_scalp \in BOOLEAN : AckExitFill(is_high_scalp)

Next ==
    \/ Environment
    \/ SecondElapses
    \/ \E accepted \in BOOLEAN, cancel_ok \in BOOLEAN, oid \in OrderIds :
           V2Evaluate(accepted, cancel_ok, oid)
    \/ \E accepted \in BOOLEAN, fallback_ok \in BOOLEAN, balance_ok \in BOOLEAN,
          cancel_ok \in BOOLEAN, oid \in OrderIds :
           WebEvaluate(accepted, fallback_ok, balance_ok, cancel_ok, oid)
    \/ \E closed \in BOOLEAN : EmergencyUnwind(closed)

SpecV2 == InitV2 /\ [][NextV2]_vars

SpecWeb == InitWeb /\ [][NextWeb]_vars

SpecLedger == InitLedger /\ [][NextLedger]_vars

Spec == Init /\ [][Next]_vars

(* Both bots with the take-profit prices watched. *)
InitTp ==
    /\ bot \in {"BTCScalpingBotV2", "WebBTCScalpingBot"}
    /\ InitEnv
    /\ hist = Watching({"tp"})
    /\ v2_positions = <<>> /\ completed_cycles = 0
    /\ v1_positions = <<>> /\ trade_count = 0

NextTp ==
    \/ \E pp \in TpPricePairs : PriceUpdate(pp[1], pp[2])
    \/ \E t \in TimePoints : ClockAdvance(t)
    \/ \E oid \in OrderIds : VenueFill(oid)
    \/ SecondElapses
    \/ \E accepted \in BOOLEAN, cancel_ok \in BOOLEAN, oid \in OrderIds :
           V2Evaluate(accepted, cancel_ok, oid)
    \/ \E accepted \in BOOLEAN, fallback_ok \in BOOLEAN, balance_ok \in BOOLEAN,
          cancel_ok \in BOOLEAN, oid \in OrderIds :
           WebEvaluate(accepted, fallback_ok, balance_ok, cancel_ok, oid)
    \/ \E closed \in BOOLEAN : EmergencyUnwind(closed)

SpecTp == InitTp /\ [][NextTp]_vars

(* The V1 strategy called directly, with the exit intents watched. *)
InitStrategy ==
    /\ bot = "MultiLevelScalpingStrategy"
    /\ InitEnv
    /\ hist = Watching({"debounce"})
    /\ v2_positions = <<>> /\ completed_cycles = 0
    /\ v1_positions = <<>> /\ trade_count = 0

NextStrategy ==
    \/ \E pp \in WebPricePairs : PriceUpdate(pp[1], pp[2])
    \/ \E t \in TimePoints : ClockAdvance(t)
    \/ SecondElapses
    \/ StrategyEvaluate
    \/ StrategyFill
    \/ \E side \in Sides, hs \in BOOLEAN : StrategyExitFill(side, hs)

SpecStrategy == InitStrategy /\ [][NextStrategy]_vars

(* Books of the last five minutes: one side at a high-scalp price, the     *)
(* other above and below the high-scalp target.                            *)
HsPricePairs == {<<880, 135>>, <<880, 90>>}

(* Both bots with the filled HIGH_SCALP entries counted. *)
InitHs ==
    /\ bot \in {"BTCScalpingBotV2", "WebBTCScalpingBot"}
    /\ InitEnv
    /\ hist = Watching({"hs"})
    /\ v2_positions = <<>> /\ completed_cycles = 0
    /\ v1_positions = <<>> /\ trade_count = 0

NextHs ==
    \/ \E pp \in HsPricePairs : PriceUpdate(pp[1], pp[2])
    \/ \E t \in TimePoints : ClockAdvance(t)
    \/ \E oid \in OrderIds : VenueFill(oid)
    \/ SecondElapses
    \/ \E accepted \in BOOLEAN, cancel_ok \in BOOLEAN, oid \in OrderIds :
           V2Evaluate(accepted, cancel_ok, oid)
    \/ \E accepted \in BOOLEAN, fallback_ok \in BOOLEAN, balance_ok \in BOOLEAN,
          cancel_ok \in BOOLEAN, oid \in OrderIds :
           WebEvaluate(accepted, fallback_ok, balance_ok, cancel_ok, oid)
    \/ \E closed \in BOOLEAN : EmergencyUnwind(closed)

SpecHs == InitHs /\ [][NextHs]_vars

(* The books of the V1 bots: each side in turn just below the 0.34 level,  *)
(* the other side's ask above the target of an entry there, and a NO ask   *)
(* below every level.                                                      *)
V1PricePairs == {<<335, 670>>, <<670, 335>>, <<880, 90>>}

V1TimePoints == {600, 299}

(* The V1 strategy under each of its two bots. *)
InitV1 ==
    /\ bot \in {"BTCScalpingBot", "WebBTCScalpingBot"}
    /\ InitEmpty

NextV1 ==
    \/ \E pp \in V1PricePairs : PriceUpdate(pp[1], pp[2])
    \/ \E t \in V1TimePoints : ClockAdvance(t)
    \/ \E oid \in OrderIds : VenueFill(oid)
    \/ SecondElapses
    \/ \E accepted \in BOOLEAN : V1BotEvaluate(accepted)
    \/ \E accepted \in BOOLEAN, fallback_ok \in BOOLEAN, balance_ok \in BOOLEAN,
          cancel_ok \in BOOLEAN, oid \in OrderIds :
           WebEvaluate(accepted, fallback_ok, balance_ok, cancel_ok, oid)
    \/ \E closed \in BOOLEAN : EmergencyUnwind(closed)

SpecV1 == InitV1 /\ [][NextV1]_vars

(* Either strategy called directly on a ledger drawn from a bounded set:   *)
(* evaluations at any price and instant, and the fill callbacks.           *)
NextDirect ==
    \/ \E pp \in WebPricePairs : PriceUpdate(pp[1], pp[2])
    \/ \E t \in V1TimePoints : ClockAdvance(t)
    \/ V2StrategyEvaluate
    \/ StrategyEvaluate
    \/ \E side \in Sides, hs \in BOOLEAN :
           AckFill(side, IF hs THEN 880 ELSE 335, hs)
    \/ \E is_high_scalp \in BOOLEAN : AckExitFill(is_high_scalp)

SpecDirect == InitLedger /\ [][NextDirect]_vars

(* BTCScalpingBotV2 from the entries to the last five minutes, with a      *)
(* venue that does not reject orders for ever: the loop evaluates the      *)
(* market every 2 s, and an evaluation whose order the venue accepts is    *)
(* eventually among them.                                                  *)
NextV2Late ==
    \/ \E pp \in V1PricePairs : PriceUpdate(pp[1], pp[2])
    \/ \E t \in V1TimePoints : ClockAdvance(t)
    \/ \E oid \in OrderIds : VenueFill(oid)
    \/ \E accepted \in BOOLEAN, cancel_ok \in BOOLEAN, oid \in OrderIds :
           V2Evaluate(accepted, cancel_ok, oid)

SpecV2Fair ==
    /\ InitV2 /\ [][NextV2Late]_vars
    /\ WF_vars(\E cancel_ok \in BOOLEAN, oid \in OrderIds : V2Evaluate(TRUE, cancel_ok, oid))

(* An OrderBook fed snapshots and price changes. *)
InitOrderBook ==
    /\ bot = "OrderBook"
    /\ BotsUnused
    /\ active_markets = {}
    /\ scalper = NotRunning
    /\ streamer = NotRunning
    /\ order_book = [bids |-> EmptyMap, asks |-> EmptyMap]

NextOrderBook ==
    \/ \E bids \in UpdateLists, asks \in UpdateLists :
           Len(bids) + Len(asks) <= MaxUpdates /\ OrderBookUpdate(bids, asks)
    \/ OrderBookClear

SpecOrderBook == InitOrderBook /\ [][NextOrderBook]_vars

(* ScalpingBot: the event-driven orchestrator.  Prices are in mills,       *)
(* spreads in mills of a dollar, PnL in mills of a dollar times shares.    *)
entry_prices == <<350, 300, 250>>

shares_clip == 10

tp_spread == 20

sl_spread == -100

MaxTasks == 3

ScalperMarkets == {"m1", "m2"}

NoTrade == [action |-> "NONE", token |-> "NONE", price |-> 0, size |-> 0, reason |-> "NONE"]

(* PolyScalpingStrategy.check_market *)
check_market(a_yes, a_no, pos) ==
    LET idx_yes == pos.shares_yes \div shares_clip
        idx_no == pos.shares_no \div shares_clip
        spread_yes == 1000 - (pos.avg_price_yes + a_no)
        spread_no == 1000 - (pos.avg_price_no + a_yes)
        Buy(token, price, size, reason) ==
            [action |-> "BUY", token |-> token, price |-> price, size |-> size, reason |-> reason]
    IN IF pos.shares_no < 1 /\ idx_yes < Len(entry_prices)
           /\ a_yes > 0 /\ a_yes <= entry_prices[idx_yes + 1]
       THEN Buy("YES", a_yes, shares_clip, "Entry")
       ELSE IF pos.shares_yes < 1 /\ idx_no < Len(entry_prices)
               /\ a_no > 0 /\ a_no <= entry_prices[idx_no + 1]
       THEN Buy("NO", a_no, shares_clip, "Entry")
       ELSE IF pos.shares_yes >= 1 /\ a_no > 0 /\ spread_yes >= tp_spread
       THEN Buy("NO", a_no, pos.shares_yes, "TP Unwind")
       ELSE IF pos.shares_yes >= 1 /\ a_no > 0 /\ spread_yes <= sl_spread
       THEN Buy("NO", a_no, pos.shares_yes, "SL Unwind")
       ELSE IF pos.shares_no >= 1 /\ a_yes > 0 /\ spread_no >= tp_spread
       THEN Buy("YES", a_yes, pos.shares_no, "TP Unwind")
       ELSE IF pos.shares_no >= 1 /\ a_yes > 0 /\ spread_no <= sl_spread
       THEN Buy("YES", a_yes, pos.shares_no, "SL Unwind")
       ELSE NoTrade

(* ScalpingBot.update_position_simulated; the venue books a fill alike. *)
update_position(pos, sig) ==
    IF sig.token = "YES"
    THEN [pos EXCEPT !.shares_yes = @ + sig.size,
                     !.avg_price_yes = (pos.shares_yes * @ + sig.size * sig.price)
                                           \div (pos.shares_yes + sig.size)]
    ELSE [pos EXCEPT !.shares_no = @ + sig.size,
                     !.avg_price_no = (pos.shares_no * @ + sig.size * sig.price)
                                          \div (pos.shares_no + sig.size)]

(* The lock check of on_price_update. *)
Locked_Never(processing_markets, m) == FALSE

Locked(processing_markets, m) == m \in processing_markets

(* MarketDataStreamer._process_item seen from the bot: the book of a       *)
(* market changes and the callback is spawned as a task.                   *)
TrackerPriceChange(m, book) ==
    /\ bot = "ScalpingBot"
    /\ scalper.tracker_running
    /\ m \in active_markets
    /\ Len(scalper.tasks) < MaxTasks
    /\ scalper' = [scalper EXCEPT
           !.book[m] = book,
           !.fresh[m] = TRUE,
           !.tasks = Append(@, [market |-> m, pc |-> "spawned", result |-> "none", sig |-> NoTrade])]
    /\ last' = NoStep("price_change")
    /\ UNCHANGED <<bot, envVars, venue_resting, v2Vars, v1Vars, ctxVars, rt, hist,
                   active_markets, order_book, streamer>>

(* ScalpingBot.on_price_update up to its first suspension: the lock check, *)
(* the lock, execute_strategy_cycle's reads and check_market, and the call *)
(* of place_limit_order, which suspends only when trading is enabled.      *)
on_price_update(i) ==
    /\ bot = "ScalpingBot"
    /\ i \in DOMAIN scalper.tasks
    /\ scalper.tasks[i].pc = "spawned"
    /\ LET m == scalper.tasks[i].market
           sig == check_market(scalper.book[m][1], scalper.book[m][2], scalper.positions[m])
           Finish(result) == [scalper.tasks[i] EXCEPT !.pc = "done", !.result = result, !.sig = sig]
       IN IF Locked(scalper.processing_markets, m)
          THEN /\ scalper' = [scalper EXCEPT
                      !.tasks[i] = [@ EXCEPT !.pc = "done", !.result = "dropped"]]
               /\ last' = NoStep("on_price_update")
          ELSE IF sig.action = "NONE"
          THEN /\ scalper' = [scalper EXCEPT !.fresh[m] = FALSE, !.tasks[i] = Finish("idle")]
               /\ last' = NoStep("on_price_update")
          ELSE IF ~scalper.trading_enabled
          THEN /\ scalper' = [scalper EXCEPT
                      !.fresh[m] = FALSE,
                      !.positions[m] = update_position(@, sig),
                      !.tasks[i] = Finish("simulated")]
               /\ last' = Step("on_price_update", NoSignal, sig.reason, 0)
          ELSE /\ scalper' = [scalper EXCEPT
                      !.fresh[m] = FALSE,
                      !.processing_markets = @ \cup {m},
                      !.tasks[i] = [@ EXCEPT !.pc = "placing", !.sig = sig]]
               /\ last' = Step("on_price_update", NoSignal, sig.reason, 0)
    /\ UNCHANGED <<bot, envVars, venue_resting, v2Vars, v1Vars, ctxVars, rt, hist,
                   active_markets, order_book, streamer>>

(* The awaited place_order returns to place_limit_order, or the await      *)
(* raises; on_price_update's finally releases the lock either way.  An     *)
(* accepted order is filled by the venue, and an unwind locks in the       *)
(* spread of the hedged pair times its size.                               *)
PlaceOrderReturns(i, resp) ==
    /\ bot = "ScalpingBot"
    /\ i \in DOMAIN scalper.tasks
    /\ scalper.tasks[i].pc = "placing"
    /\ LET m == scalper.tasks[i].market
           sig == scalper.tasks[i].sig
       IN scalper' = [scalper EXCEPT
              !.processing_markets = @ \ {m},
              !.venue[m] = IF resp = "accepted" THEN update_position(@, sig) ELSE @,
              !.realized_pnl =
                  IF resp # "accepted" \/ sig.reason = "Entry" THEN @
                  ELSE IF sig.token = "NO"
                  THEN @ + (1000 - (scalper.venue[m].avg_price_yes + sig.price)) * sig.size
                  ELSE @ + (1000 - (scalper.venue[m].avg_price_no + sig.price)) * sig.size,
              !.tasks[i] = [@ EXCEPT !.pc = "done", !.result = resp]]
    /\ last' = NoStep("place_order_returns")
    /\ UNCHANGED <<bot, envVars, venue_resting, v2Vars, v1Vars, ctxVars, rt, hist,
                   active_markets, order_book, streamer>>

(* One turn of run_loop: sync_positions and check_global_risk while        *)
(* is_running, and the tracker's stop once the loop has ended.             *)
(* risk_checked observes that check_global_risk has run with the PnL       *)
(* locked in so far below the limit; daily_pnl is the field it reads.      *)
RunLoopStep ==
    /\ bot = "ScalpingBot"
    /\ scalper.tracker_running
    /\ IF scalper.is_running
       THEN scalper' = [scalper EXCEPT
                !.positions = [m \in ScalperMarkets |->
                    [shares_yes |-> IF scalper.venue[m].shares_yes > 0
                                    THEN scalper.venue[m].shares_yes ELSE @[m].shares_yes,
                     avg_price_yes |-> IF scalper.venue[m].shares_yes > 0
                                       THEN scalper.venue[m].avg_price_yes ELSE @[m].avg_price_yes,
                     shares_no |-> IF scalper.venue[m].shares_no > 0
                                   THEN scalper.venue[m].shares_no ELSE @[m].shares_no,
                     avg_price_no |-> IF scalper.venue[m].shares_no > 0
                                      THEN scalper.venue[m].avg_price_no ELSE @[m].avg_price_no]],
                !.is_running = ~(scalper.daily_pnl < -scalper.daily_loss_limit_usdc * 1000),
                !.risk_checked = @ \/ scalper.realized_pnl < -scalper.daily_loss_limit_usdc * 1000]
       ELSE scalper' = [scalper EXCEPT !.tracker_running = FALSE]
    /\ last' = NoStep("run_loop")
    /\ UNCHANGED <<bot, envVars, venue_resting, v2Vars, v1Vars, ctxVars, rt, hist,
                   active_markets, order_book, streamer>>

(* ScalpingBot after start(), with two markets found by the first scan,    *)
(* trading enabled or not, and a daily loss limit of one dollar.           *)
InitScalper ==
    /\ bot = "ScalpingBot"
    /\ BotsUnused
    /\ active_markets = ScalperMarkets
    /\ order_book = NotRunning
    /\ streamer = NotRunning
    /\ \E enabled \in BOOLEAN :
         LET FlatPosition == [shares_yes |-> 0, shares_no |-> 0,
                              avg_price_yes |-> 0, avg_price_no |-> 0]
         IN scalper = [stage |-> "running",
                    trading_enabled |-> enabled,
                    daily_loss_limit_usdc |-> 1,
                    is_running |-> TRUE,
                    tracker_running |-> TRUE,
                    daily_pnl |-> 0,
                    realized_pnl |-> 0,
                    risk_checked |-> FALSE,
                    processing_markets |-> {},
                    tasks |-> <<>>,
                    book |-> [m \in ScalperMarkets |-> <<0, 0>>],
                    fresh |-> [m \in ScalperMarkets |-> FALSE],
                    positions |-> [m \in ScalperMarkets |-> FlatPosition],
                    venue |-> [m \in ScalperMarkets |-> FlatPosition]]

(* The (ask YES, ask NO) pairs the tracker reports: an entry price for YES *)
(* with no unwind, with a take-profit unwind and with a stop-loss unwind.  *)
NextScalper ==
    \/ \E m \in ScalperMarkets, book \in {<<340, 680>>, <<340, 600>>, <<340, 780>>} :
           TrackerPriceChange(m, book)
    \/ \E i \in 1..MaxTasks : on_price_update(i)
    \/ \E i \in 1..MaxTasks, resp \in {"accepted", "none", "raised"} : PlaceOrderReturns(i, resp)
    \/ RunLoopStep

SpecScalper == InitScalper /\ [][NextScalper]_vars

(* The steps asyncio takes on its own: a spawned task starts, an awaited   *)
(* call completes, run_loop wakes from its sleep.  Price changes are the   *)
(* venue's and are not forced.                                             *)
SpecScalperFair ==
    /\ SpecScalper
    /\ \A i \in 1..MaxTasks :
         /\ WF_vars(on_price_update(i))
         /\ WF_vars(\E resp \in {"accepted", "none", "raised"} : PlaceOrderReturns(i, resp))
    /\ WF_vars(RunLoopStep)

(* MarketDataStreamer: the websocket feed.  conn numbers the connections   *)
(* made so far, sent lists the frames written to the current one, senders  *)
(* and monitors hold the connections whose _write_loop and _health_monitor *)
(* tasks are alive, known_tokens is subscribed_tokens as it was when the   *)
(* current connection was made, silence is the time since the last         *)
(* received message (999 while none has been received).                    *)
MaxConns == 3

MaxQueue == 2

StreamTokens == {"t1", "t2"}

HandshakeFrame == [type |-> "market", assets_ids |-> {}]

SubscribeFrame(tokens) == [type |-> "subscribe", assets_ids |-> tokens]

(* A task made by create_task runs only once _ws_loop suspends, and        *)
(* send_json hands its frame to the transport before it can suspend: the   *)
(* tasks of a connection do not run between create_task and the handshake. *)
SenderMayRun_Always(stage) == TRUE

SenderMayRun(stage) == stage # "connected"

StreamerStep(op) ==
    /\ last' = NoStep(op)
    /\ UNCHANGED <<bot, envVars, venue_resting, v2Vars, v1Vars, ctxVars, rt, hist,
                   active_markets, scalper, order_book>>

(* MarketDataStreamer.subscribe *)
StreamerSubscribe(token_ids) ==
    /\ bot = "MarketDataStreamer"
    /\ Len(streamer.msg_queue) < MaxQueue
    /\ LET new_tokens == token_ids \ streamer.subscribed_tokens
       IN streamer' = [streamer EXCEPT
              !.subscribed_tokens = @ \cup token_ids,
              !.msg_queue = IF streamer.running /\ new_tokens # {}
                            THEN Append(@, SubscribeFrame(new_tokens)) ELSE @]
    /\ StreamerStep("subscribe")

(* _ws_loop: ws_connect, after the backoff sleep when the last connection  *)
(* ended with an exception; on success the two tasks are created.          *)
WsConnect(ok) ==
    /\ bot = "MarketDataStreamer"
    /\ streamer.running
    /\ streamer.stage = "connecting"
    /\ streamer.conn < MaxConns
    /\ streamer' = IF ok
                   THEN [streamer EXCEPT !.stage = "connected",
                                         !.conn = @ + 1,
                                         !.sent = <<>>,
                                         !.known_tokens = streamer.subscribed_tokens,
                                         !.senders = @ \cup {streamer.conn + 1},
                                         !.monitors = @ \cup {streamer.conn + 1}]
                   ELSE streamer
    /\ StreamerStep("ws_connect")

(* _ws_loop: the handshake, then the subscription of every subscribed      *)
(* token.  A send that raises leaves the loop outside the try/finally, so  *)
(* the two tasks are not cancelled; the connection is closed on the way.   *)
WsSend(ok) ==
    /\ bot = "MarketDataStreamer"
    /\ streamer.stage \in {"connected", "handshaken"}
    /\ streamer' =
         IF ~ok THEN [streamer EXCEPT !.stage = "connecting"]
         ELSE IF streamer.stage = "connected"
         THEN [streamer EXCEPT !.stage = "handshaken", !.sent = Append(@, HandshakeFrame)]
         ELSE [streamer EXCEPT
                  !.stage = "listening",
                  !.sent = IF streamer.subscribed_tokens # {}
                           THEN Append(@, SubscribeFrame(streamer.subscribed_tokens)) ELSE @]
    /\ StreamerStep("ws_send")

(* _write_loop of connection c takes the next queued message and sends it; *)
(* on a closed connection the send fails, the message is dropped and the   *)
(* task ends.                                                              *)
WriteLoopStep(c, ok) ==
    /\ bot = "MarketDataStreamer"
    /\ c \in streamer.senders
    /\ streamer.msg_queue # <<>>
    /\ LET open == c = streamer.conn /\ streamer.stage \in {"connected", "handshaken", "listening"}
       IN /\ open => SenderMayRun(streamer.stage)
          /\ streamer' = [streamer EXCEPT
                 !.msg_queue = Tail(@),
                 !.sent = IF open /\ ok THEN Append(@, Head(streamer.msg_queue)) ELSE @,
                 !.senders = IF open THEN @ ELSE @ \ {c}]
    /\ StreamerStep("write_loop")

(* _health_monitor of connection c wakes from its sleep: after more than   *)
(* 120 s without a message, or on a closed connection, the task ends.      *)
HealthMonitorStep(c) ==
    /\ bot = "MarketDataStreamer"
    /\ c \in streamer.monitors
    /\ ~(c = streamer.conn /\ streamer.stage = "connected")
    /\ LET open == c = streamer.conn /\ streamer.stage \in {"handshaken", "listening"}
       IN streamer' = [streamer EXCEPT
              !.monitors = IF ~open \/ streamer.silence > 120 THEN @ \ {c} ELSE @]
    /\ StreamerStep("health_monitor")

(* The receive loop of _ws_loop gets a text message, a CLOSED or ERROR     *)
(* message, or an exception; leaving the loop cancels the two tasks.       *)
Receive(kind) ==
    /\ bot = "MarketDataStreamer"
    /\ streamer.stage = "listening"
    /\ streamer' = IF kind = "text"
                   THEN [streamer EXCEPT !.silence = 0]
                   ELSE [streamer EXCEPT !.stage = "connecting",
                                         !.senders = @ \ {streamer.conn},
                                         !.monitors = @ \ {streamer.conn}]
    /\ StreamerStep("receive")

(* Time passes without a message. *)
SilenceGrows ==
    /\ bot = "MarketDataStreamer"
    /\ streamer.silence < 121
    /\ streamer' = [streamer EXCEPT !.silence = IF @ = 0 THEN 61 ELSE 121]
    /\ StreamerStep("silence")

(* MarketDataStreamer after start(). *)
InitStreamer ==
    /\ bot = "MarketDataStreamer"
    /\ BotsUnused
    /\ active_markets = {}
    /\ scalper = NotRunning
    /\ order_book = NotRunning
    /\ \E tokens \in SUBSET StreamTokens :
         streamer = [stage |-> "connecting",
                     running |-> TRUE,
                     subscribed_tokens |-> tokens,
                     msg_queue |-> <<>>,
                     conn |-> 0,
                     sent |-> <<>>,
                     known_tokens |-> {},
                     senders |-> {},
                     monitors |-> {},
                     silence |-> 999]

NextStreamer ==
    \/ \E token_ids \in SUBSET StreamTokens : StreamerSubscribe(token_ids)
    \/ \E ok \in BOOLEAN : WsConnect(ok)
    \/ \E ok \in BOOLEAN : WsSend(ok)
    \/ \E c \in 1..MaxConns, ok \in BOOLEAN : WriteLoopStep(c, ok)
    \/ \E c \in 1..MaxConns : HealthMonitorStep(c)
    \/ \E kind \in {"text", "closed", "error"} : Receive(kind)
    \/ SilenceGrows

SpecStreamer == InitStreamer /\ [][NextStreamer]_vars

(* The steps the streamer takes on its own: connecting, the two sends, the *)
(* tasks' wake-ups and the passing of time.  What the server sends or      *)
(* whether it closes the connection is not forced.                         *)
SpecStreamerFair ==
    /\ SpecStreamer
    /\ WF_vars(WsConnect(TRUE))
    /\ WF_vars(WsSend(TRUE))
    /\ WF_vars(SilenceGrows)
    /\ \A c \in 1..MaxConns :
         /\ WF_vars(WriteLoopStep(c, TRUE))
         /\ WF_vars(HealthMonitorStep(c))

(* The instants of a market's whole life, the last one past the grace      *)
(* period after its end.                                                   *)
LifeTimePoints == {600, 420, 299, -1, -601}

(* Both bots over the life of a market, up to its removal. *)
InitLife ==
    /\ bot \in {"BTCScalpingBotV2", "WebBTCScalpingBot"}
    /\ InitEmpty

NextLife ==
    \/ \E pp \in WebPricePairs : PriceUpdate(pp[1], pp[2])
    \/ \E t \in LifeTimePoints : ClockAdvance(t)
    \/ \E oid \in OrderIds : VenueFill(oid)
    \/ SecondElapses
    \/ \E accepted \in BOOLEAN, cancel_ok \in BOOLEAN, oid \in OrderIds :
           V2Evaluate(accepted, cancel_ok, oid)
    \/ \E accepted \in BOOLEAN, fallback_ok \in BOOLEAN, balance_ok \in BOOLEAN,
          cancel_ok \in BOOLEAN, oid \in OrderIds :
           WebEvaluate(accepted, fallback_ok, balance_ok, cancel_ok, oid)
    \/ \E closed \in BOOLEAN : EmergencyUnwind(closed)
    \/ CleanupExpiredMarkets
    \/ RemoveMarket

SpecLife == InitLife /\ [][NextLife]_vars

---------------------------------------------------------------------------
(* Shorthands for the properties *)

LevelPositions == get_level_positions(v2_positions)

IsLevelEntry(sig) == IsEnter(sig) /\ ~sig.is_high_price_scalp

(* What the strategy returns when it is evaluated in the current state. *)
CurrentV2Signal ==
    evaluate_market(v2_positions, completed_cycles, ask_yes, ask_no, remaining)

CurrentV1Signal ==
    v1_evaluate_market(V1State, ctx_position_yes, ctx_position_no, ask_yes, ask_no,
                       remaining).sig

CurrentSignal == IF bot = "BTCScalpingBotV2" THEN CurrentV2Signal ELSE CurrentV1Signal

(* The LEVEL positions the current intent is about. *)
SignalPositions ==
    SelectSeq(IF bot = "BTCScalpingBotV2" THEN v2_positions ELSE v1_positions,
              LAMBDA p : p.side = CurrentSignal.side /\ ~p.is_high_scalp)

IsForceUnwind(sig) ==
    sig.action = "EXIT" /\ sig.urgency = "CRITICAL" /\ ~sig.is_high_price_scalp

Evaluated == last.op = "evaluate"

---------------------------------------------------------------------------
C2_CycleCap ==
    /\ completed_cycles <= max_completed_cycles
    /\ completed_cycles = max_completed_cycles => ~IsLevelEntry(CurrentV2Signal)

(* The cap is reached while an ask is below an entry level with more than  *)
(* 7 min left and no position open.                                        *)
C2_Witness ==
    /\ completed_cycles = max_completed_cycles
    /\ v2_positions = <<>>
    /\ ask_yes # 0 /\ ask_yes < entry_levels[1]
    /\ remaining >= min_time_for_level_entry

(* C3: with less than force_unwind_time (300 s) left, evaluate_market of   *)
(* V2 and of V1 returns a force-unwind EXIT, a HIGH_SCALP EXIT, a          *)
(* HIGH_SCALP ENTER or nothing: never a LEVEL entry, never PLACE_TP_LIMIT. *)
C3_ForcedUnwindGate ==
    remaining < force_unwind_time
        => \/ CurrentSignal = NoSignal
           \/ IsForceUnwind(CurrentSignal)
           \/ CurrentSignal.action = "EXIT" /\ CurrentSignal.is_high_price_scalp
           \/ IsEnter(CurrentSignal) /\ CurrentSignal.is_high_price_scalp

(* Under 300 s a LEVEL position is open whose take-profit test passes, and *)
(* the bot has just evaluated the market.                                  *)
C3_Witness ==
    /\ remaining < force_unwind_time
    /\ bot = "BTCScalpingBotV2"
    /\ check_level_exit(v2_positions, ask_yes, ask_no) # NoSignal
    /\ Evaluated
    /\ IsForceUnwind(last.sig)

(* C4: with less than 420 s left no LEVEL entry is returned (V2 and V1),   *)
(* and with 300 <= remaining < 420 the only intent that can be returned    *)
(* is PLACE_TP_LIMIT.                                                      *)
C4_LateEntryGate ==
    remaining < min_time_for_level_entry
        => /\ ~IsLevelEntry(CurrentSignal)
           /\ remaining >= force_unwind_time
                  => CurrentSignal = NoSignal \/ CurrentSignal.action = "PLACE_TP_LIMIT"

(* C5: a step in which a post-only TP order was only accepted, or in which *)
(* the close orders of emergency_unwind failed, leaves the positions in    *)
(* the ledger and the cycle counter as they were.                          *)
C5_LedgerKeptUntilFill ==
    [][(\/ last'.op = "evaluate" /\ last'.outcome = "resting"
        \/ last'.op = "emergency_unwind" /\ last'.outcome = "rejected")
           => /\ v2_positions' = v2_positions
              /\ completed_cycles' = completed_cycles
              /\ v1_positions' = v1_positions
              /\ trade_count' = trade_count]_vars

(* C6: the cycle counter (completed_cycles, trade_count) changes only in a *)
(* step that delivered an exit fill classified LEVEL, by exactly 1, and    *)
(* only when that fill removed the last LEVEL positions of its side.       *)
C6_CounterOnlyByLevelExitFill ==
    [][/\ completed_cycles' # completed_cycles
           => /\ last'.op = "evaluate"
              /\ last'.sig.action \in {"EXIT", "PLACE_TP_LIMIT"}
              /\ ~last'.sig.is_high_price_scalp
              /\ completed_cycles' = completed_cycles + 1
              /\ \E i \in 1..Len(v2_positions) :
                     ~v2_positions[i].is_high_scalp
                         /\ v2_positions[i].side = last'.sig.side
              /\ \A i \in 1..Len(v2_positions') :
                     ~v2_positions'[i].is_high_scalp
                         => v2_positions'[i].side # last'.sig.side
       /\ trade_count' # trade_count
           => /\ last'.op = "evaluate"
              /\ last'.sig.action = "EXIT"
              /\ ~last'.sig.is_high_price_scalp
              /\ trade_count' = trade_count + 1
              /\ \E i \in 1..Len(v1_positions) :
                     ~v1_positions[i].is_high_scalp
                         /\ v1_positions[i].side = last'.sig.side
              /\ \A i \in 1..Len(v1_positions') :
                     ~v1_positions'[i].is_high_scalp
                         => v1_positions'[i].side # last'.sig.side]_vars

(* C7 as stated: on_order_filled(S) followed by on_exit_filled(S, cls)     *)
(* leaves V2's position list exactly as it was before the fill, with       *)
(* completed_cycles one higher for LEVEL and unchanged for HIGH_SCALP.     *)
C7_RoundTripRestores ==
    (bot = "MultiLevelScalpingStrategyV2" /\ rt.stage = "exited")
        => /\ v2_positions = rt.positions
           /\ completed_cycles = rt.count + (IF rt.exit_hs THEN 0 ELSE 1)

(* C7, amended: the round trip leaves the pre-fill list without its        *)
(* positions of side S (so the list itself when it held none on S), with   *)
(* completed_cycles one higher for LEVEL and unchanged for HIGH_SCALP.     *)
C7_RoundTripClearsSide ==
    (bot = "MultiLevelScalpingStrategyV2" /\ rt.stage = "exited")
        => /\ v2_positions = SelectSeq(rt.positions, LAMBDA p : p.side # rt.side)
           /\ (\A i \in 1..Len(rt.positions) : rt.positions[i].side # rt.side)
                  => v2_positions = rt.positions
           /\ completed_cycles = rt.count + (IF rt.exit_hs THEN 0 ELSE 1)

(* A LEVEL round trip on a side that already held a position. *)
C7_Witness ==
    /\ bot = "MultiLevelScalpingStrategyV2"
    /\ rt.stage = "exited"
    /\ ~rt.exit_hs
    /\ \E i \in 1..Len(rt.positions) : rt.positions[i].side = rt.side

(* C8: after the same fill acknowledgement was delivered twice to          *)
(* on_order_filled (V2 and V1) the ledger is the pre-fill ledger plus      *)
(* exactly one position for it.                                            *)
C8_FillAckIdempotent ==
    rt.stage = "redelivered"
        => LedgerPositions =
               Append(rt.positions,
                      LevelPosition(rt.side, rt.price,
                                 IF rt.hs THEN high_scalp_size ELSE level_size, rt.hs,
                                 IF rt.hs THEN high_scalp_profit_target
                                 ELSE level_profit_target))

(* C9: when the force-unwind EXIT order is sent, none of the TP orders the *)
(* bot placed earlier is still resting at the venue.                       *)
C9_NoRestingTpAtForcedExit ==
    (Evaluated /\ IsForceUnwind(last.sig)) => last.stale = 0

(* C10 as stated: a PLACE_TP_LIMIT intent for LEVEL positions of average   *)
(* entry e and target t carries the price max(0.01, 1 - (1+t)*e).          *)
C10_TpPriceIsTarget ==
    CurrentSignal.action = "PLACE_TP_LIMIT"
        => LET size == SumSize(SignalPositions)
               target == 100000 * size - (100 + level_profit_target) * SumCost(SignalPositions)
               floor == 100 * 10 * size
           IN  100 * CurrentSignal.price * size
                   = (IF target < floor THEN floor ELSE target)

(* C10, amended: a PLACE_TP_LIMIT intent carries the current ask of the    *)
(* opposite token, which is at most 1 - (1+t)*e.                           *)
C10_TpPriceIsAskWithinTarget ==
    CurrentSignal.action = "PLACE_TP_LIMIT"
        => /\ CurrentSignal.price
                  = (IF CurrentSignal.side = "YES" THEN ask_no ELSE ask_yes)
           /\ 100 * CurrentSignal.price * SumSize(SignalPositions)
                  <= 100000 * SumSize(SignalPositions)
                         - (100 + level_profit_target) * SumCost(SignalPositions)

(* A PLACE_TP_LIMIT intent whose price is strictly below the target. *)
C10_Witness ==
    /\ CurrentSignal.action = "PLACE_TP_LIMIT"
    /\ 100 * CurrentSignal.price * SumSize(SignalPositions)
           < 100000 * SumSize(SignalPositions)
                 - (100 + level_profit_target) * SumCost(SignalPositions)
    /\ SignalPositions # <<>>

(* C11: while the LEVEL positions of a market are unchanged, a             *)
(* PLACE_TP_LIMIT intent never carries a higher price than the             *)
(* PLACE_TP_LIMIT intent returned before it.                               *)
C11_RepriceMonotone ==
    [][(/\ last'.op = "evaluate"
        /\ last'.sig.action = "PLACE_TP_LIMIT"
        /\ hist.tp_price # 0)
           => last'.sig.price <= hist.tp_price]_vars

(* C12: under the V1 strategy, an EXIT or PLACE_TP_LIMIT intent returned   *)
(* with more than 300 s left is never returned less than 1 s after         *)
(* another one, whatever fills and exit fills came in between.             *)
C12_ExitDebounce ==
    [][(/\ last'.op = "evaluate"
        /\ remaining > 300
        /\ last'.sig.action \in {"EXIT", "PLACE_TP_LIMIT"})
           => ~hist.exit_intent_recent]_vars

(* The bot tracks a TP order of the market that the venue accepted. *)
TpOrderTracked ==
    IF bot = "BTCScalpingBotV2" THEN active_tp_orders # <<>>
    ELSE RangeOf(active_exit_orders) \cap OrderIds # {}

(* The bot tracks nothing for the market, not even a failure marker. *)
NothingTracked ==
    IF bot = "BTCScalpingBotV2" THEN active_tp_orders = <<>>
    ELSE active_exit_orders = <<>>

(* C13: executing a PLACE_TP_LIMIT intent, a bot that tracks no TP order   *)
(* places one (unless the balance check stops it); a bot that tracks one   *)
(* cancels and replaces it when the new price is strictly lower than the   *)
(* last placed price, and otherwise calls the venue not at all.            *)
C13_TpOrderManagement ==
    [][(last'.op = "evaluate" /\ last'.sig.action = "PLACE_TP_LIMIT")
           => /\ NothingTracked
                    => \/ last'.orders = <<"LIMIT">>
                       \/ last'.outcome = "insufficient-balance"
              /\ (TpOrderTracked /\ last'.sig.price < hist.attempt_price)
                    => last'.orders = <<"CANCEL", "LIMIT">>
              /\ (TpOrderTracked /\ last'.sig.price >= hist.attempt_price)
                    => last'.orders = <<>>]_vars

(* active_exit_orders holds only a failure marker. *)
SentinelOnly(order_ids) ==
    order_ids # <<>> /\ RangeOf(order_ids) \cap OrderIds = {}

(* C14: under the web bot, a TP placement that fails leaves a failure      *)
(* marker; while the marker is there the same order is not placed again;   *)
(* the marker no longer blocks a PLACE_TP_LIMIT intent whose price has     *)
(* improved; and it is gone after an exit fill and after an evaluation     *)
(* past the 5-min gate.                                                    *)
C14_TpFailureSentinel ==
    [][(bot = "WebBTCScalpingBot" /\ last'.op = "evaluate")
           => /\ (last'.sig.action = "PLACE_TP_LIMIT"
                     /\ last'.outcome \in {"rejected", "insufficient-balance"})
                    => SentinelOnly(active_exit_orders')
              /\ (last'.sig.action = "PLACE_TP_LIMIT"
                     /\ SentinelOnly(active_exit_orders)
                     /\ last'.sig.price >= hist.attempt_price)
                    => last'.orders = <<>>
              /\ (last'.sig.action = "PLACE_TP_LIMIT"
                     /\ SentinelOnly(active_exit_orders)
                     /\ last'.sig.price < hist.attempt_price)
                    => last'.outcome # "skipped"
              /\ (last'.sig.action = "EXIT" /\ last'.outcome = "filled")
                    => active_exit_orders' = <<>>
              /\ remaining < 300 => ~SentinelOnly(active_exit_orders')]_vars

(* C15: under the web bot, whenever active_exit_orders of the market is    *)
(* non-empty the strategy holds at least one open position for it.         *)
C15_ExitOrdersImplyPosition ==
    (bot = "WebBTCScalpingBot" /\ active_exit_orders # <<>>) => v1_positions # <<>>

(* C16: executing an EXIT intent, the web bot sends the BUY of the         *)
(* opposite token when the balance covers it and the SELL of the held      *)
(* token otherwise; a rejected BUY is retried once as that SELL; the       *)
(* ledger loses positions only if one of the orders went through, and      *)
(* when none did positions, counters and ctx are unchanged.                *)
C16_UnwindOrSell ==
    [][(bot = "WebBTCScalpingBot" /\ last'.op = "evaluate"
            /\ last'.sig.action = "EXIT")
        => \A accepted, fallback_ok, balance_ok, cancel_ok \in BOOLEAN, oid \in OrderIds :
          WebEvaluate(accepted, fallback_ok, balance_ok, cancel_ok, oid)
            => LET went_through == IF balance_ok THEN accepted \/ fallback_ok
                                   ELSE accepted
               IN  /\ (balance_ok /\ accepted) => last'.orders = <<"BUY">>
                   /\ (balance_ok /\ ~accepted) => last'.orders = <<"BUY", "SELL">>
                   /\ ~balance_ok => last'.orders = <<"SELL">>
                   /\ v1_positions' # v1_positions => went_through
                   /\ went_through
                          => v1_positions' = NotOnSide(v1_positions,
                                                       WebExitSide(ctx_position_yes))
                   /\ ~went_through
                          => UNCHANGED <<v1_positions, trade_count, high_scalp_count,
                                         ctx_position_yes, ctx_position_no>>]_vars

(* An EXIT whose BUY and whose SELL retry were both rejected, the position *)
(* still in the ledger.                                                    *)
C16_Witness ==
    /\ bot = "WebBTCScalpingBot"
    /\ last.op = "evaluate" /\ last.sig.action = "EXIT"
    /\ last.orders = <<"BUY", "SELL">>
    /\ last.outcome = "rejected"
    /\ v1_positions # <<>>

(* C17: under BTCScalpingBotV2 the open HIGH_SCALP positions of the market *)
(* never number more than max_high_scalp_per_market, and an evaluation     *)
(* returns a HIGH_SCALP entry only when no HIGH_SCALP position is open.    *)
C17_HighScalpOneAtATime ==
    [][/\ count_high_scalp_positions(v2_positions') <= max_high_scalp_per_market
       /\ (bot = "BTCScalpingBotV2" /\ last'.op = "evaluate" /\ IsEnter(last'.sig)
              /\ last'.sig.is_high_price_scalp)
            => get_high_scalp_positions(v2_positions) = <<>>]_vars

(* A HIGH_SCALP entry was filled after an earlier HIGH_SCALP cycle of the  *)
(* market had completed: one HIGH_SCALP position is open.                  *)
C17_Witness ==
    /\ bot = "BTCScalpingBotV2"
    /\ last.op = "evaluate" /\ IsEnter(last.sig) /\ last.sig.is_high_price_scalp
    /\ last.outcome = "filled"
    /\ completed_cycles > 0
    /\ count_high_scalp_positions(v2_positions) = 1

(* C18: over the life of a market at most max_high_scalp_per_market        *)
(* HIGH_SCALP entries are ever filled, whatever entries and exits occur.   *)
C18_LifetimeHighScalpCap ==
    hist.hs_fills <= max_high_scalp_per_market

(* The open HIGH_SCALP positions of the running bot on a side, and the ask *)
(* of the token that unwinds that side.                                    *)
OpenHighScalp(side) ==
    SelectSeq(IF bot = "BTCScalpingBotV2" THEN v2_positions ELSE v1_positions,
              LAMBDA p : p.side = side /\ p.is_high_scalp)

OpenLevel ==
    SelectSeq(IF bot = "BTCScalpingBotV2" THEN v2_positions ELSE v1_positions,
              LAMBDA p : ~p.is_high_scalp)

UnwindAsk(side) == IF side = "YES" THEN ask_no ELSE ask_yes

(* C19: in V2 and in V1, with less than 5 min remaining, no LEVEL position *)
(* open and a HIGH_SCALP position on a side whose unwind price is within   *)
(* its target, evaluate_market returns an EXIT (not PLACE_TP_LIMIT) buying *)
(* the opposite token for the whole HIGH_SCALP size.                       *)
C19_HighScalpExit ==
    \A side \in Sides :
        (/\ remaining < 300 /\ ask_yes # 0 /\ ask_no # 0
         /\ OpenLevel = <<>>
         /\ OpenHighScalp(side) # <<>>
         /\ TargetMet(OpenHighScalp(side), high_scalp_profit_target, UnwindAsk(side)))
        => /\ CurrentSignal.action = "EXIT"
           /\ CurrentSignal.token = Opposite(side)
           /\ CurrentSignal.price = UnwindAsk(side)
           /\ CurrentSignal.size = SumSize(OpenHighScalp(side))

(* C20: whenever YES ask + NO ask exceeds 1.02 the strategy returns no     *)
(* entry, LEVEL or HIGH_SCALP, whatever the prices, positions and time.    *)
C20_NoEntryOnCrossedBook ==
    (ask_yes # 0 /\ ask_no # 0 /\ ask_yes + ask_no > 1020) => ~IsEnter(CurrentSignal)

(* C26: once the market has been removed from the bot, by the pruning     *)
(* after end_time + 600 s or by remove_market, nothing is kept for it:     *)
(* no position, no TP / exit order id, no cycle or high-scalp count, in    *)
(* the bot or in the strategy.                                             *)
C26_RemovalDiscardsState ==
    (MarketId \notin active_markets)
        => /\ v2_positions = <<>> /\ v1_positions = <<>>
           /\ active_tp_orders = <<>> /\ active_exit_orders = <<>>
           /\ completed_cycles = 0 /\ trade_count = 0
           /\ high_scalp_count = 0

(* C28: with MultiLevelScalpingStrategy (V1) the open LEVEL positions of  *)
(* the market are all on one side, and no LEVEL entry is returned for a    *)
(* side while the other side holds a LEVEL position.                       *)
C28_V1LevelBookOneSided ==
    /\ \A i, j \in 1..Len(v1_positions) :
           (~v1_positions[i].is_high_scalp /\ ~v1_positions[j].is_high_scalp)
               => v1_positions[i].side = v1_positions[j].side
    /\ (bot \in {"BTCScalpingBot", "WebBTCScalpingBot"}
           /\ IsLevelEntry(CurrentV1Signal))
           => \A i \in 1..Len(v1_positions) :
                  ~v1_positions[i].is_high_scalp
                      => v1_positions[i].side = CurrentV1Signal.side

(* A LEVEL YES position is still open after an evaluation that returned   *)
(* its take-profit, with the NO ask below an entry level and LEVEL entries *)
(* still allowed by the clock and the trade count.                         *)
C28_Witness ==
    /\ bot \in {"BTCScalpingBot", "WebBTCScalpingBot"}
    /\ \E i \in 1..Len(v1_positions) :
           ~v1_positions[i].is_high_scalp /\ v1_positions[i].side = "YES"
    /\ ask_no # 0 /\ ask_no < entry_levels[1]
    /\ remaining >= 420
    /\ trade_count < max_trades_per_market
    /\ last.op = "evaluate" /\ last.sig.action = "PLACE_TP_LIMIT"

(* Whether the running strategy counts a level as not entered yet: V2 by  *)
(* the open LEVEL positions near it, V1 by its last_entry_time keys.       *)
Unentered(side, level) ==
    IF bot = "BTCScalpingBotV2" THEN ~has_position_at_level(v2_positions, level)
    ELSE <<side, level>> \notin last_entry_time

(* C29: a LEVEL entry intent is for the lowest entry level that is above  *)
(* the side's price and has not been entered yet, in V2 as in V1.          *)
C29_LowestLevelChosen ==
    (ask_yes # 0 /\ ask_no # 0 /\ IsLevelEntry(CurrentSignal))
        => \A i \in 1..Len(entry_levels) :
               (CurrentSignal.price < entry_levels[i]
                    /\ Unentered(CurrentSignal.side, entry_levels[i]))
                   => CurrentSignal.level <= entry_levels[i]

(* C30: under BTCScalpingBotV2, once a LEVEL entry for a side and level   *)
(* has been filled the strategy does not return an entry for that side and *)
(* level again while the position is open, so a side holds at most one     *)
(* open LEVEL position per entry level (3 positions, 30 shares).           *)
C30_EntryDebounce ==
    bot = "BTCScalpingBotV2"
        => /\ \A side \in Sides :
                  /\ Len(OnSide(LevelPositions, side)) <= Len(entry_levels)
                  /\ SumSize(OnSide(LevelPositions, side))
                         <= Len(entry_levels) * level_size
           /\ (last.op = "evaluate" /\ IsLevelEntry(last.sig) /\ last.outcome = "filled"
                  /\ ask_yes # 0 /\ ask_no # 0 /\ IsLevelEntry(CurrentV2Signal))
                 => <<CurrentV2Signal.side, CurrentV2Signal.level>>
                        # <<last.sig.side, last.sig.level>>

(* C23: after any sequence of snapshot and price-change updates no stored *)
(* level has size 0, no price is in both the bid map and the ask map, and  *)
(* the best bid / best ask are the maximum bid / minimum ask price stored, *)
(* 0 for an empty side.                                                    *)
C23_OrderBookInvariant ==
    bot = "OrderBook"
        => /\ \A p \in DOMAIN order_book.bids : order_book.bids[p] # 0
           /\ \A p \in DOMAIN order_book.asks : order_book.asks[p] # 0
           /\ DOMAIN order_book.bids \cap DOMAIN order_book.asks = {}
           /\ \A p \in DOMAIN order_book.bids : p <= get_best_bid(order_book)
           /\ \A p \in DOMAIN order_book.asks : get_best_ask(order_book) <= p
           /\ (DOMAIN order_book.bids = {}) = (get_best_bid(order_book) = 0)
           /\ (DOMAIN order_book.asks = {}) = (get_best_ask(order_book) = 0)

(* C21: per-market mutual exclusion in ScalpingBot.on_price_update: at     *)
(* most one execute_strategy_cycle of a market is in flight at any time,   *)
(* and a market is in processing_markets exactly while its cycle is in     *)
(* flight, so the id is gone once the cycle has returned or raised.        *)
C21_PerMarketMutualExclusion ==
    bot = "ScalpingBot" =>
        \A m \in ScalperMarkets :
            LET in_flight == {i \in DOMAIN scalper.tasks :
                                 scalper.tasks[i].market = m /\ scalper.tasks[i].pc = "placing"}
            IN /\ Cardinality(in_flight) <= 1
               /\ m \in scalper.processing_markets <=> in_flight # {}

(* A callback was turned away by the lock while a cycle of its market was  *)
(* in flight, and that cycle has since raised.                             *)
C21_Witness ==
    /\ bot = "ScalpingBot"
    /\ \E i, j \in DOMAIN scalper.tasks :
         /\ i < j
         /\ scalper.tasks[i].market = scalper.tasks[j].market
         /\ scalper.tasks[i].result = "raised"
         /\ scalper.tasks[j].result = "dropped"
         /\ scalper.tasks[i].market \notin scalper.processing_markets


(* C22: coalescing in ScalpingBot.on_price_update: a price update of a     *)
(* market that no evaluation has read yet, also one that arrived while an  *)
(* evaluation of the market was running, is eventually read by an          *)
(* evaluation of that market.                                              *)
C22_LastUpdateEvaluated ==
    \A m \in ScalperMarkets : scalper.fresh[m] ~> ~scalper.fresh[m]

(* C27: the kill switch of ScalpingBot: once check_global_risk has run     *)
(* with the daily loss limit breached, no further entry order is placed,   *)
(* and the tracker keeps feeding evaluations while a market still holds    *)
(* an unhedged position.                                                   *)
C27_KillSwitch ==
    [][(bot = "ScalpingBot" /\ scalper.risk_checked)
         => /\ ~(last'.op = "on_price_update" /\ last'.outcome = "Entry")
            /\ (\E m \in ScalperMarkets :
                    scalper'.venue[m].shares_yes # scalper'.venue[m].shares_no)
                 => scalper'.tracker_running]_vars

(* C24: the feed protocol order of MarketDataStreamer: on every connection *)
(* the first frame sent is the handshake and every later frame is a        *)
(* subscription, whatever the interleaving of _ws_loop, the _write_loop    *)
(* tasks and subscribe(); and once a connection is listening, a            *)
(* subscription carrying every token subscribed before it was made has     *)
(* been sent on it.                                                        *)
C24_HandshakeFirst ==
    bot = "MarketDataStreamer" =>
        /\ streamer.sent # <<>> => streamer.sent[1] = HandshakeFrame
        /\ \A k \in 2..Len(streamer.sent) : streamer.sent[k].type = "subscribe"
        /\ (streamer.stage = "listening" /\ streamer.known_tokens # {})
             => \E k \in 2..Len(streamer.sent) :
                    streamer.known_tokens \subseteq streamer.sent[k].assets_ids

(* A reconnection on which the _write_loop sent a queued subscription      *)
(* between the handshake and the subscription of all tokens.               *)
C24_Witness ==
    /\ bot = "MarketDataStreamer"
    /\ streamer.conn >= 2
    /\ streamer.stage = "listening"
    /\ Len(streamer.sent) = 3
    /\ streamer.sent[1] = HandshakeFrame
    /\ streamer.sent[2].assets_ids # streamer.subscribed_tokens
    /\ streamer.sent[3] = SubscribeFrame(streamer.subscribed_tokens)

(* C25: dead-connection detection of MarketDataStreamer: when no message   *)
(* has been received for more than 120 s on a listening connection, a new  *)
(* connection is eventually made, unless a message arrives after all.      *)
C25_DeadConnectionReconnects ==
    \A c \in 1..(MaxConns - 1) :
        (streamer.running /\ streamer.stage = "listening"
             /\ streamer.conn = c /\ streamer.silence > 120)
          ~> (streamer.conn > c \/ streamer.silence <= 120)

(* C31: level re-entry in MultiLevelScalpingStrategy: once a cycle has     *)
(* been completed and the market holds no position, a side whose price is  *)
(* below a level it entered before gets a LEVEL entry at that level again  *)
(* (the lowest level above the price) when more than 7 min remain, no TP   *)
(* order is active and trade_count is below max_trades_per_market.         *)
C31_LevelReentry ==
    (bot \in {"BTCScalpingBot", "WebBTCScalpingBot"}) =>
        \A i \in 1..Len(entry_levels) :
            (/\ trade_count >= 1
             /\ trade_count < max_trades_per_market
             /\ v1_positions = <<>>
             /\ ctx_position_yes = 0 /\ ctx_position_no = 0
             /\ <<"YES", entry_levels[i]>> \in last_entry_time
             /\ ask_yes # 0 /\ ask_yes < entry_levels[i]
             /\ \A j \in 1..Len(entry_levels) :
                    ask_yes < entry_levels[j] => entry_levels[i] <= entry_levels[j]
             /\ remaining > 420
             /\ active_exit_orders = <<>>
             /\ ~exit_signal_recent)
              => /\ CurrentV1Signal.action = "ENTER_YES"
                 /\ CurrentV1Signal.level = entry_levels[i]
                 /\ ~CurrentV1Signal.is_high_price_scalp

(* C32: the force-unwind choice of both strategies: with less than 5 min  *)
(* remaining and a LEVEL position open, evaluate_market returns an EXIT    *)
(* with urgency CRITICAL for the side with the larger aggregate LEVEL size *)
(* (YES on a tie), sized to that aggregate, on the opposite token at its   *)
(* current ask; so after the exit-fill of one side the next evaluation     *)
(* unwinds the other.                                                      *)
C32_ForceUnwindChoice ==
    (bot \in Strategies /\ ask_yes # 0 /\ ask_no # 0) =>
        LET lv == get_level_positions(LedgerPositions)
            yes_size == SumSize(OnSide(lv, "YES"))
            no_size == SumSize(OnSide(lv, "NO"))
            side == IF OnSide(lv, "YES") # <<>> /\ yes_size >= no_size THEN "YES" ELSE "NO"
            sig == IF bot = "MultiLevelScalpingStrategyV2" THEN CurrentV2Signal
                   ELSE CurrentV1Signal
        IN  (remaining < 300 /\ lv # <<>>)
              => sig = Signal("EXIT", Opposite(side),
                              IF side = "YES" THEN ask_no ELSE ask_yes,
                              IF side = "YES" THEN yes_size ELSE no_size,
                              "CRITICAL", side, FALSE, 0)

(* An exit-fill has cleared one side of a two-sided LEVEL book in the last *)
(* five minutes, and the evaluation now unwinds the other side.            *)
C32_Witness ==
    /\ bot \in Strategies
    /\ ask_yes # 0 /\ ask_no # 0
    /\ remaining < 300
    /\ rt.stage = "exited"
    /\ OnSide(get_level_positions(LedgerPositions), Opposite(rt.side)) # <<>>
    /\ OnSide(LedgerPositions, rt.side) = <<>>
    /\ LET sig == IF bot = "MultiLevelScalpingStrategyV2" THEN CurrentV2Signal
                  ELSE CurrentV1Signal
       IN  IsForceUnwind(sig) /\ sig.side = Opposite(rt.side)

C33_TpInFlightBlocksEntries ==
    (bot = "WebBTCScalpingBot" /\ active_exit_orders # <<>>) => ~IsEnter(CurrentV1Signal)

(* A TP order or sentinel is held at prices and a time where _check_entry  *)
(* would return a LEVEL entry were the set empty, and none is returned.    *)
C33_Witness ==
    /\ bot = "WebBTCScalpingBot"
    /\ active_exit_orders # <<>>
    /\ IsEnter(v1_check_entry(last_entry_time, trade_count, <<>>, ask_yes, ask_no,
                              remaining).sig)
    /\ v1_check_exit(v1_positions, exit_signal_recent, ask_yes, ask_no, remaining) = NoSignal
    /\ CurrentV1Signal = NoSignal

C36_SnapshotReplaces ==
    [][\A bids, asks \in UpdateLists :
           (/\ bids # <<>> /\ asks # <<>>
            /\ \A i \in DOMAIN bids : bids[i].size # 0
            /\ \A i \in DOMAIN asks : asks[i].size # 0
            /\ Len(bids) + Len(asks) <= MaxUpdates
            /\ OrderBookUpdate(bids, asks))
           => order_book' = [bids |-> update_side(EmptyMap, bids),
                             asks |-> update_side(EmptyMap, asks)]]_vars

(* C37: under BTCScalpingBotV2 the ledger of a market never holds LEVEL    *)
(* positions and HIGH_SCALP positions together, so an exit-fill, which     *)
(* clears a whole side, only ever removes positions of one classification. *)
C37_LevelAndHighScalpDisjoint ==
    bot = "BTCScalpingBotV2" =>
        ~(/\ \E i \in DOMAIN v2_positions : v2_positions[i].is_high_scalp
          /\ \E i \in DOMAIN v2_positions : ~v2_positions[i].is_high_scalp)

(* A HIGH_SCALP position is held in a market whose LEVEL positions were    *)
(* exited before.                                                          *)
C37_Witness ==
    /\ bot = "BTCScalpingBotV2"
    /\ completed_cycles >= 1
    /\ \E i \in DOMAIN v2_positions : v2_positions[i].is_high_scalp

(* C38: no entry after expiry: an evaluation of a tracked market whose     *)
(* end time has passed (remaining <= 0) emits no ENTER intent, LEVEL or    *)
(* HIGH_SCALP.                                                             *)
C38_NoEntryAfterExpiry ==
    (/\ bot \in {"BTCScalpingBotV2", "BTCScalpingBot", "WebBTCScalpingBot"}
     /\ MarketId \in active_markets
     /\ ask_yes # 0 /\ ask_no # 0
     /\ remaining <= 0)
    => ~IsEnter(CurrentSignal)

(* C39: two-ledger consistency under BTCScalpingBot (V1): for each side    *)
(* the context's position equals the summed size of the strategy's open    *)
(* positions on that side, and the side execute_signal hands to            *)
(* on_exit_filled for the current exit intent is the side the intent       *)
(* names.                                                                  *)
C39_TwoLedgersAgree ==
    bot = "BTCScalpingBot" =>
        /\ ctx_position_yes = SumSize(OnSide(v1_positions, "YES"))
        /\ ctx_position_no = SumSize(OnSide(v1_positions, "NO"))
        /\ (MarketId \in active_markets /\ ask_yes # 0 /\ ask_no # 0
              /\ CurrentV1Signal.action = "EXIT")
           => WebExitSide(ctx_position_yes) = CurrentV1Signal.side

(* BTCScalpingBot has sold out a NO position through an accepted exit     *)
(* order after opening it, and both ledgers are empty again.               *)
C39_Witness ==
    /\ bot = "BTCScalpingBot"
    /\ Evaluated
    /\ last.sig.action \in {"PLACE_TP_LIMIT", "EXIT"}
    /\ last.sig.side = "NO"
    /\ last.outcome = "filled"
    /\ v1_positions = <<>>
    /\ ctx_position_yes = 0 /\ ctx_position_no = 0

(* C40: exit-fill idempotence: acknowledging twice in a row the exit of a  *)
(* side that holds positions of the acknowledged classification leaves the *)
(* ledger as after the first acknowledgement: same positions, cycle        *)
(* counter not incremented again, in on_exit_filled of either strategy.    *)
C40_ExitFillIdempotent ==
    bot \in Strategies =>
        \A side \in Sides, hs \in BOOLEAN :
            (\E i \in DOMAIN LedgerPositions :
                 /\ LedgerPositions[i].side = side
                 /\ LedgerPositions[i].is_high_scalp = hs) =>
                IF bot = "MultiLevelScalpingStrategyV2"
                THEN LET once == on_exit_filled(v2_positions, completed_cycles, side, hs)
                     IN  on_exit_filled(once.positions, once.completed_cycles, side, hs)
                             = once
                ELSE LET once == v1_on_exit_filled(v1_positions, trade_count, side, hs)
                     IN  v1_on_exit_filled(once.positions, once.trade_count, side, hs)
                             = once

====
